---- MODULE Spec2Model ----
(***************************************************************************)
(* Model of the Z21 command-station client of keskad/loco                  *)
(* (pkgs/commandstation): frame builders, response parsers, the CV         *)
(* read/write orchestration with its retry loop, the function-state cache  *)
(* and the track-power flag that CleanUp consults.                         *)
(*                                                                         *)
(* Bytes are naturals 0..255, frames are sequences of bytes (1-based, so   *)
(* Go's pkt[k] is pkt[k+1] here; At0 hides the shift).                     *)
(***************************************************************************)
EXTENDS Integers, Sequences, FiniteSets, TLC

VARIABLES
    conn,            \* Z21Roco.conn: "open" | "closed"
    wasPowerCutOff,  \* Z21Roco.wasPowerCutOff
    fnStateCache,    \* Z21Roco.fnStateCache: LocoAddr -> fnState (partial)
    pc,              \* position of the caller inside the facade
    cur,             \* locals of the facade call in progress
    ret,             \* what the last finished facade call returned
    wire,            \* frames the current / last facade call handed to conn.Write
    rx,              \* the datagram the last conn.Read of this call returned
    outcomes,        \* how each sendAndAwait attempt of the current call ended
    awaited,         \* what the last sendAndAwait of the current call returned
    progOps,         \* ReadCV / WriteCV calls entered in ProgrammingTrack mode
    powerOnWrites,   \* track-power-restore frames handed to conn.Write
    built,           \* codec specification: the frame a builder returned
    callers,         \* concurrent specification: fnStateMu and the callers of SendFn
    app,             \* application specification: the LocoApp action in progress
    watch            \* watch specification: WatchSoundSlot, its timer and its syncs

vars == <<conn, wasPowerCutOff, fnStateCache, pc, cur, ret, wire, rx,
          outcomes, awaited, progOps, powerOnWrites, built, callers, app, watch>>

sessionVars == <<conn, wasPowerCutOff, fnStateCache, pc, cur, ret, wire, rx,
                 outcomes, awaited, progOps, powerOnWrites, callers, app, watch>>

-----------------------------------------------------------------------------
(* Bounds of the model.                                                    *)

MaxProgOps == 2     \* ProgrammingTrack CV calls per session
MaxRetries == 2     \* largest retry budget a caller passes (uint8 in the code)
MaxCallers == 2     \* goroutines calling SendFn concurrently

-----------------------------------------------------------------------------
(* Byte arithmetic.                                                        *)

RECURSIVE BitAnd(_, _)
BitAnd(a, b) ==
    IF a = 0 \/ b = 0 THEN 0
    ELSE (a % 2) * (b % 2) + 2 * BitAnd(a \div 2, b \div 2)

RECURSIVE BitOr(_, _)
BitOr(a, b) ==
    IF a = 0 THEN b
    ELSE IF b = 0 THEN a
    ELSE (IF (a % 2) + (b % 2) > 0 THEN 1 ELSE 0) + 2 * BitOr(a \div 2, b \div 2)

RECURSIVE BitXor(_, _)
BitXor(a, b) ==
    IF a = 0 THEN b
    ELSE IF b = 0 THEN a
    ELSE ((a + b) % 2) + 2 * BitXor(a \div 2, b \div 2)

\* a &^ b (AND NOT) on bytes
BitAndNot(a, b) == BitAnd(a, 255 - b)

Shr(a, n) == a \div (2 ^ n)

Shl(a, n) == a * (2 ^ n)

\* byte(x) and uint16(x) conversions of a non-negative or wrapped integer
Byte(x) == x % 256

Uint16(x) == x % 65536

\* Go index k of a slice
At0(s, k) == s[k + 1]

\* binary.LittleEndian.PutUint16
PutUint16(v) == <<v % 256, (v \div 256) % 256>>

\* binary.LittleEndian.Uint16(pkt[k:k+2])
LEUint16(pkt, k) == At0(pkt, k) + 256 * At0(pkt, k + 1)

\* a ^ b on bytes, tabulated once
XorByte == [a \in 0..255 |-> [b \in 0..255 |-> BitXor(a, b)]]

\* x after the first n rounds of "for _, v := range b { x ^= v }"
RECURSIVE XorFold(_, _)
XorFold(b, n) == IF n = 0 THEN 0 ELSE XorByte[XorFold(b, n - 1)][b[n]]

\* variant: the accumulator starts at 1 instead of 0
xorSum_fromOne(b) == XorByte[XorFold(b, Len(b))][1]

xorSum(b) == XorFold(b, Len(b))

-----------------------------------------------------------------------------
(* Domain types (pkgs/commandstation types).                               *)

MainTrackMode == "pom"

ProgrammingTrackMode == "prog"

\* CV.Translate: uint16(cv.Num - 1), CVNum being a uint16
Translate(cv) == Uint16(cv.Num + 65535)

\* the common tail of every builder: length, header, payload x
Frame(dataLen, header, x) == PutUint16(dataLen) \o PutUint16(header) \o x

\* variant: the long-address bits are set for addr > 128
AdrMSB_above128(addr) ==
    LET msb == Byte(BitAnd(Shr(addr, 8), \h3F))
    IN  IF addr > 128 THEN BitOr(msb, \hC0) ELSE msb

\* adrMSB as every addressed builder computes it
AdrMSB(addr) ==
    LET msb == Byte(BitAnd(Shr(addr, 8), \h3F))
    IN  IF addr >= 128 THEN BitOr(msb, \hC0) ELSE msb

AdrLSB(addr) == Byte(BitAnd(addr, \hFF))

\* variant: the read frame carries the write option 0xEC
buildPomReadPacket_writeOption(lcv) ==
    LET cvWire == Translate(lcv.Cv)
        db3 == Byte(BitOr(\hEC, Byte(BitAnd(Shr(cvWire, 8), 3))))
        db4 == Byte(BitAnd(cvWire, \hFF))
        x == <<\hE6, \h30, AdrMSB(lcv.LocoId), AdrLSB(lcv.LocoId), db3, db4, 0>>
    IN  Frame(\h000C, \h0040, Append(x, xorSum(x)))

buildPomReadPacket(lcv) ==
    LET cvWire == Translate(lcv.Cv)
        db3 == Byte(BitOr(\hE4, Byte(BitAnd(Shr(cvWire, 8), 3))))
        db4 == Byte(BitAnd(cvWire, \hFF))
        x == <<\hE6, \h30, AdrMSB(lcv.LocoId), AdrLSB(lcv.LocoId), db3, db4, 0>>
    IN  Frame(\h000C, \h0040, Append(x, xorSum(x)))

buildPomWriteByte(lcv) ==
    LET cvWire == Translate(lcv.Cv)
        value == Byte(lcv.Cv.Value)
        db3 == Byte(BitOr(\hEC, Byte(BitAnd(Shr(cvWire, 8), 3))))
        db4 == Byte(BitAnd(cvWire, \hFF))
        x == <<\hE6, \h30, AdrMSB(lcv.LocoId), AdrLSB(lcv.LocoId), db3, db4, value>>
    IN  Frame(\h000C, \h0040, Append(x, xorSum(x)))

buildProgReadPacket(cv) ==
    LET cvWire == Translate(cv)
        x == <<\h23, \h11, Byte(Shr(cvWire, 8)), Byte(BitAnd(cvWire, \hFF))>>
    IN  Frame(\h000B, \h0040, Append(x, xorSum(x)))

buildProgWritePacket(lcv) ==
    LET cvWire == Translate(lcv.Cv)
        value == Byte(lcv.Cv.Value)
        x == <<\h24, \h12, Byte(Shr(cvWire, 8)), Byte(BitAnd(cvWire, \hFF)), value>>
    IN  Frame(\h000A, \h0040, Append(x, xorSum(x)))

buildTrackPowerOn ==
    LET x == <<\h21, \h81>>
    IN  Frame(\h0007, \h0040, Append(x, xorSum(x)))

buildGetLocoInfo(addr) ==
    LET x == <<\hE3, \hF0, AdrMSB(addr), AdrLSB(addr)>>
    IN  Frame(\h0009, \h0040, Append(x, xorSum(x)))

buildSetLocoFunction(addr, fnNum, on) ==
    LET typeBits == IF on THEN \h40 ELSE 0
        db3 == BitOr(typeBits, Byte(BitAnd(fnNum % 256, \h3F)))
        x == <<\hE4, \hF8, AdrMSB(addr), AdrLSB(addr), db3>>
    IN  Frame(\h000A, \h0040, Append(x, xorSum(x)))

\* variant: the speed is masked but not clamped
buildSetLocoSpeed_noClamp(addr, speed, forward, speedSteps) ==
    LET db0 == Byte(BitOr(\h10, BitAnd(speedSteps, \h0F)))
        dir == IF forward THEN \h80 ELSE 0
        db3 == CASE speedSteps = 0 -> BitOr(dir, BitAnd(speed, \h0F))
                 [] speedSteps = 2 ->
                      IF speed > 0
                      THEN BitOr(dir, BitOr(Byte(Shl((speed + 3) % 2, 4)),
                                            BitAnd(((speed + 3) % 256) \div 2, \h0F)))
                      ELSE dir
                 [] OTHER -> BitOr(dir, BitAnd(speed, \h7F))
        x == <<\hE4, db0, AdrMSB(addr), AdrLSB(addr), db3>>
    IN  Frame(\h000A, \h0040, Append(x, xorSum(x)))

buildSetLocoSpeed(addr, speed, forward, speedSteps) ==
    LET db0 == Byte(BitOr(\h10, BitAnd(speedSteps, \h0F)))
        dir == IF forward THEN \h80 ELSE 0
        s14 == IF speed > 15 THEN 15 ELSE speed
        s28 == IF speed > 28 THEN 28 ELSE speed
        s128 == IF speed > 127 THEN 127 ELSE speed
        db3 == CASE speedSteps = 0 -> BitOr(dir, BitAnd(s14, \h0F))
                 [] speedSteps = 2 ->
                      IF s28 > 0
                      THEN BitOr(dir, BitOr(Byte(Shl((s28 + 3) % 2, 4)),
                                            BitAnd((s28 + 3) \div 2, \h0F)))
                      ELSE dir
                 [] speedSteps = 4 -> BitOr(dir, BitAnd(s128, \h7F))
                 [] OTHER -> BitOr(dir, BitAnd(speed, \h7F))
        x == <<\hE4, db0, AdrMSB(addr), AdrLSB(addr), db3>>
    IN  Frame(\h000A, \h0040, Append(x, xorSum(x)))

\* errors are chains of messages, outermost first; nil is the empty chain
nil == <<>>

Wrap(msg, err) == <<msg>> \o err

\* variant: a mode that is neither constant is taken as MainTrackMode
buildCVRequest_defaultsToPom(mode, lcv, isWriteRequest) ==
    CASE mode = ProgrammingTrackMode ->
           [req |-> IF isWriteRequest THEN buildProgWritePacket(lcv)
                    ELSE buildProgReadPacket(lcv.Cv),
            err |-> nil]
      [] OTHER ->
           [req |-> IF isWriteRequest THEN buildPomWriteByte(lcv)
                    ELSE buildPomReadPacket(lcv),
            err |-> nil]

\* buildCVRequest: the frame, or an error for a mode that is neither constant
buildCVRequest(mode, lcv, isWriteRequest) ==
    CASE mode = MainTrackMode ->
           [req |-> IF isWriteRequest THEN buildPomWriteByte(lcv)
                    ELSE buildPomReadPacket(lcv),
            err |-> nil]
      [] mode = ProgrammingTrackMode ->
           [req |-> IF isWriteRequest THEN buildProgWritePacket(lcv)
                    ELSE buildProgReadPacket(lcv.Cv),
            err |-> nil]
      [] OTHER -> [req |-> <<>>, err |-> <<"unrecognized mode">>]

-----------------------------------------------------------------------------
(* Response parsing.                                                       *)

\* the zero cvResult{}
NoResult == [cv |-> 0, value |-> 0, source |-> ""]

\* cvResult.Error
ResultError(res) ==
    CASE res.source = "LAN_X_CV_RESULT" -> nil
      [] res.source = "LAN_X_CV_NACK" ->
           <<"missing RailCom acknowledgement (NACK_SC)">>
      [] res.source = "LAN_X_CV_NACK_SC" ->
           <<"short circuit (LAN_X_CV_NACK_SC)">>
      [] OTHER -> <<"unknown error">>
\* a parser that would drop a datagram whose XOR byte does not match
parseCVResponse_checksummed(pkt) ==
    IF Len(pkt) < 6 THEN [res |-> NoResult, ok |-> FALSE]
    ELSE IF LEUint16(pkt, 2) # \h0040 \/ LEUint16(pkt, 0) # Len(pkt)
    THEN [res |-> NoResult, ok |-> FALSE]
    ELSE IF xorSum(SubSeq(pkt, 5, Len(pkt))) # 0
    THEN [res |-> NoResult, ok |-> FALSE]
    ELSE IF Len(pkt) >= 10 /\ At0(pkt, 4) = \h64 /\ At0(pkt, 5) = \h14
    THEN [res |-> [cv |-> Shl(At0(pkt, 6), 8) + At0(pkt, 7),
                   value |-> At0(pkt, 8),
                   source |-> "LAN_X_CV_RESULT"],
          ok |-> TRUE]
    ELSE IF At0(pkt, 4) = \h61 /\ At0(pkt, 5) = \h13
    THEN [res |-> [NoResult EXCEPT !.source = "LAN_X_CV_NACK"], ok |-> TRUE]
    ELSE IF At0(pkt, 4) = \h61 /\ At0(pkt, 5) = \h12
    THEN [res |-> [NoResult EXCEPT !.source = "LAN_X_CV_NACK_SC"], ok |-> TRUE]
    ELSE [res |-> NoResult, ok |-> FALSE]


\* variant: the two NACK opcodes are swapped
parseCVResponse_swapped(pkt) ==
    IF Len(pkt) < 6 THEN [res |-> NoResult, ok |-> FALSE]
    ELSE IF LEUint16(pkt, 2) # \h0040 \/ LEUint16(pkt, 0) # Len(pkt)
    THEN [res |-> NoResult, ok |-> FALSE]
    ELSE IF Len(pkt) >= 10 /\ At0(pkt, 4) = \h64 /\ At0(pkt, 5) = \h14
    THEN [res |-> [cv |-> Shl(At0(pkt, 6), 8) + At0(pkt, 7),
                   value |-> At0(pkt, 8),
                   source |-> "LAN_X_CV_RESULT"],
          ok |-> TRUE]
    ELSE IF At0(pkt, 4) = \h61 /\ At0(pkt, 5) = \h12
    THEN [res |-> [NoResult EXCEPT !.source = "LAN_X_CV_NACK"], ok |-> TRUE]
    ELSE IF At0(pkt, 4) = \h61 /\ At0(pkt, 5) = \h13
    THEN [res |-> [NoResult EXCEPT !.source = "LAN_X_CV_NACK_SC"], ok |-> TRUE]
    ELSE [res |-> NoResult, ok |-> FALSE]

parseCVResponse(pkt) ==
    IF Len(pkt) < 6 THEN [res |-> NoResult, ok |-> FALSE]
    ELSE IF LEUint16(pkt, 2) # \h0040 \/ LEUint16(pkt, 0) # Len(pkt)
    THEN [res |-> NoResult, ok |-> FALSE]
    ELSE IF Len(pkt) >= 10 /\ At0(pkt, 4) = \h64 /\ At0(pkt, 5) = \h14
    THEN [res |-> [cv |-> Shl(At0(pkt, 6), 8) + At0(pkt, 7),
                   value |-> At0(pkt, 8),
                   source |-> "LAN_X_CV_RESULT"],
          ok |-> TRUE]
    ELSE IF At0(pkt, 4) = \h61 /\ At0(pkt, 5) = \h13
    THEN [res |-> [NoResult EXCEPT !.source = "LAN_X_CV_NACK"], ok |-> TRUE]
    ELSE IF At0(pkt, 4) = \h61 /\ At0(pkt, 5) = \h12
    THEN [res |-> [NoResult EXCEPT !.source = "LAN_X_CV_NACK_SC"], ok |-> TRUE]
    ELSE [res |-> NoResult, ok |-> FALSE]

\* the zero fnState{}
ZeroFnState == [B0_4 |-> 0, B5_12 |-> 0, B13_20 |-> 0, B21_28 |-> 0, B29_31 |-> 0]

\* variant: the declared length is not compared with the bytes received
parseLocoInfo_anyLength(pkt) ==
    IF Len(pkt) < 7
    THEN [state |-> ZeroFnState, err |-> <<"packet too short">>]
    ELSE IF LEUint16(pkt, 2) # \h0040
    THEN [state |-> ZeroFnState, err |-> <<"invalid header or length">>]
    ELSE IF At0(pkt, 4) # \hEF
    THEN [state |-> ZeroFnState, err |-> <<"not a LAN_X_LOCO_INFO packet">>]
    ELSE [state |->
            [B0_4   |-> IF Len(pkt) > 9  THEN At0(pkt, 9)  ELSE 0,
             B5_12  |-> IF Len(pkt) > 10 THEN At0(pkt, 10) ELSE 0,
             B13_20 |-> IF Len(pkt) > 11 THEN At0(pkt, 11) ELSE 0,
             B21_28 |-> IF Len(pkt) > 12 THEN At0(pkt, 12) ELSE 0,
             B29_31 |-> IF Len(pkt) > 13 THEN At0(pkt, 13) ELSE 0],
          err |-> nil]

parseLocoInfo(pkt) ==
    IF Len(pkt) < 7
    THEN [state |-> ZeroFnState, err |-> <<"packet too short">>]
    ELSE IF LEUint16(pkt, 2) # \h0040 \/ LEUint16(pkt, 0) # Len(pkt)
    THEN [state |-> ZeroFnState, err |-> <<"invalid header or length">>]
    ELSE IF At0(pkt, 4) # \hEF
    THEN [state |-> ZeroFnState, err |-> <<"not a LAN_X_LOCO_INFO packet">>]
    ELSE [state |->
            [B0_4   |-> IF Len(pkt) > 9  THEN At0(pkt, 9)  ELSE 0,
             B5_12  |-> IF Len(pkt) > 10 THEN At0(pkt, 10) ELSE 0,
             B13_20 |-> IF Len(pkt) > 11 THEN At0(pkt, 11) ELSE 0,
             B21_28 |-> IF Len(pkt) > 12 THEN At0(pkt, 12) ELSE 0,
             B29_31 |-> IF Len(pkt) > 13 THEN At0(pkt, 13) ELSE 0],
          err |-> nil]

extractFunctionBit(state, fnNum) ==
    CASE fnNum = 0 -> BitAnd(state.B0_4, \h10) # 0
      [] fnNum >= 1 /\ fnNum <= 4 -> BitAnd(state.B0_4, Shl(1, fnNum - 1)) # 0
      [] fnNum >= 5 /\ fnNum <= 12 -> BitAnd(state.B5_12, Shl(1, fnNum - 5)) # 0
      [] fnNum >= 13 /\ fnNum <= 20 -> BitAnd(state.B13_20, Shl(1, fnNum - 13)) # 0
      [] fnNum >= 21 /\ fnNum <= 28 -> BitAnd(state.B21_28, Shl(1, fnNum - 21)) # 0
      [] fnNum >= 29 /\ fnNum <= 31 -> BitAnd(state.B29_31, Shl(1, fnNum - 29)) # 0
      [] OTHER -> FALSE

\* state.B |= mask  /  state.B &^= mask
SetMask(b, mask, on) == IF on THEN BitOr(b, mask) ELSE BitAndNot(b, mask)

\* variant: the mask of F1..F4 is 1 << fnNum
UpdateFnState_shifted(state, fnNum, on) ==
    CASE fnNum = 0 -> [state EXCEPT !.B0_4 = SetMask(@, \h10, on)]
      [] fnNum >= 1 /\ fnNum <= 4 ->
           [state EXCEPT !.B0_4 = SetMask(@, Byte(Shl(1, fnNum)), on)]
      [] fnNum >= 5 /\ fnNum <= 12 ->
           [state EXCEPT !.B5_12 = SetMask(@, Byte(Shl(1, fnNum - 5)), on)]
      [] fnNum >= 13 /\ fnNum <= 20 ->
           [state EXCEPT !.B13_20 = SetMask(@, Byte(Shl(1, fnNum - 13)), on)]
      [] fnNum >= 21 /\ fnNum <= 28 ->
           [state EXCEPT !.B21_28 = SetMask(@, Byte(Shl(1, fnNum - 21)), on)]
      [] fnNum >= 29 /\ fnNum <= 31 ->
           [state EXCEPT !.B29_31 = SetMask(@, Byte(Shl(1, fnNum - 29)), on)]
      [] OTHER -> state

\* the switch of updateFunctionStateCache applied to one fnState
UpdateFnState(state, fnNum, on) ==
    CASE fnNum = 0 -> [state EXCEPT !.B0_4 = SetMask(@, \h10, on)]
      [] fnNum >= 1 /\ fnNum <= 4 ->
           [state EXCEPT !.B0_4 = SetMask(@, Byte(Shl(1, fnNum - 1)), on)]
      [] fnNum >= 5 /\ fnNum <= 12 ->
           [state EXCEPT !.B5_12 = SetMask(@, Byte(Shl(1, fnNum - 5)), on)]
      [] fnNum >= 13 /\ fnNum <= 20 ->
           [state EXCEPT !.B13_20 = SetMask(@, Byte(Shl(1, fnNum - 13)), on)]
      [] fnNum >= 21 /\ fnNum <= 28 ->
           [state EXCEPT !.B21_28 = SetMask(@, Byte(Shl(1, fnNum - 21)), on)]
      [] fnNum >= 29 /\ fnNum <= 31 ->
           [state EXCEPT !.B29_31 = SetMask(@, Byte(Shl(1, fnNum - 29)), on)]
      [] OTHER -> state

\* variant: the map is replaced by one holding this entry alone
CachePut_alone(cache, addr, state) == [a \in {addr} |-> state]

\* z.fnStateCache[addr] = state
CachePut(cache, addr, state) ==
    [a \in (DOMAIN cache) \cup {addr} |-> IF a = addr THEN state ELSE cache[a]]

\* variant: the update starts from the zero state whatever the cache holds
updateFunctionStateCache_fresh(cache, addr, fnNum, on) ==
    CachePut(cache, addr, UpdateFnState(ZeroFnState, fnNum, on))

updateFunctionStateCache(cache, addr, fnNum, on) ==
    LET state == IF addr \in DOMAIN cache THEN cache[addr] ELSE ZeroFnState
    IN  CachePut(cache, addr, UpdateFnState(state, fnNum, on))

\* the loop of ListFunctions over fnNum = from..31
RECURSIVE ActiveFunctions(_, _)
ActiveFunctions(state, from) ==
    IF from > 31 THEN <<>>
    ELSE (IF extractFunctionBit(state, from) THEN <<from>> ELSE <<>>)
         \o ActiveFunctions(state, from + 1)

-----------------------------------------------------------------------------
(* Request context and its options.                                        *)

\* a time.Duration (an int64 count of nanoseconds) as whole seconds plus
\* nanoseconds below one second
Nanoseconds(n) == [s |-> n \div 1000000000, ns |-> n % 1000000000]

Milliseconds(k) == [s |-> k \div 1000, ns |-> (k % 1000) * 1000000]

Seconds(k) == [s |-> k, ns |-> 0]

\* variant: a zero duration counts as positive
IsPositive_orZero(d) == d.s > 0 \/ d.ns >= 0

\* d > 0
IsPositive(d) == d.s > 0 \/ d.ns > 0

\* Z21Roco.Timeout as NewZ21Roco sets it
SessionTimeout == Seconds(10)

\* the RequestContext literal of WriteCV and ReadCV
DefaultCtx == [timeout |-> SessionTimeout, verify |-> FALSE, retries |-> 2,
               settle |-> Nanoseconds(200)]

Timeout(t) == [opt |-> "Timeout", val |-> t]

Retries(r) == [opt |-> "Retries", val |-> r]

Verify(v) == [opt |-> "Verify", val |-> v]

ApplyOption(ctx, o) ==
    CASE o.opt = "Timeout" -> [ctx EXCEPT !.timeout = o.val]
      [] o.opt = "Retries" -> [ctx EXCEPT !.retries = o.val]
      [] o.opt = "Verify" -> [ctx EXCEPT !.verify = o.val]

RECURSIVE applyMethodsToCtx(_, _)
applyMethodsToCtx(ctx, options) ==
    IF options = <<>> THEN ctx
    ELSE applyMethodsToCtx(ApplyOption(ctx, Head(options)), Tail(options))

-----------------------------------------------------------------------------
(* Inputs of the session specification.                                    *)

\* a mode string that is neither "pom" nor "prog"
OtherMode == "lenz"

Modes == {MainTrackMode, ProgrammingTrackMode, OtherMode}

LocoCVs == {[LocoId |-> 3, Cv |-> [Num |-> 1, Value |-> 5]]}

ReadOptionLists ==
    {<<>>, <<Timeout(Nanoseconds(0))>>} \cup {<<Retries(r)>> : r \in 0..MaxRetries}

WriteOptionLists ==
    {<<>>, <<Verify(TRUE)>>, <<Verify(TRUE), Timeout(Nanoseconds(0))>>}
        \cup {<<Verify(TRUE), Retries(r)>> : r \in 0..MaxRetries}

FnAddrs == {3}

FuncNums == {0, 32}

\* the CV session switches functions on; the function session switches both ways
SessionToggles == {TRUE}

\* LAN_X_CV_RESULT for a wire CV and a value
ResultFrame(cvWire, value) ==
    LET x == <<\h64, \h14, Byte(Shr(cvWire, 8)), Byte(cvWire), value>>
    IN  Frame(10, \h0040, Append(x, xorSum(x)))

\* LAN_X_CV_NACK and LAN_X_CV_NACK_SC
NackFrame == <<7, 0, \h40, 0, \h61, \h13, \h72>>

NackSCFrame == <<7, 0, \h40, 0, \h61, \h12, \h73>>

\* datagrams parseCVResponse rejects: header, length, opcode
BadHeaderFrame == <<7, 0, \h41, 0, \h61, \h13, \h72>>

BadLengthFrame == <<8, 0, \h40, 0, \h61, \h13, \h72>>

UnknownOpcodeFrame == <<7, 0, \h40, 0, \h61, \h01, \h60>>

JunkDatagrams == {BadHeaderFrame, BadLengthFrame, UnknownOpcodeFrame}

CVDatagrams ==
    {ResultFrame(0, 5), ResultFrame(0, 6), NackFrame, NackSCFrame} \cup JunkDatagrams

\* LAN_X_LOCO_INFO for an address with data bytes DB2.. (a prefix of DB2..DB8)
LocoInfoFrame(addr, dbs) ==
    LET x == <<\hEF, AdrMSB(addr), AdrLSB(addr)>> \o dbs
    IN  Frame(4 + Len(x) + 1, \h0040, Append(x, xorSum(x)))

LocoInfoDatagrams ==
    { LocoInfoFrame(3, <<4, 0, \h10, 0, 0, 0, 0>>),   \* DB4 = 0x10, all groups
      LocoInfoFrame(3, <<4, 0, \h10, 0>>),            \* DB6..DB8 omitted
      NackFrame }

-----------------------------------------------------------------------------
(* The session: one caller driving the facade of one Z21Roco.              *)

NoLcv == [LocoId |-> 0, Cv |-> [Num |-> 0, Value |-> 0]]

NoCall == [op |-> "none", mode |-> "", lcv |-> NoLcv, ctx |-> DefaultCtx,
           addr |-> 0, req |-> <<>>, i |-> 0, lastErr |-> nil, mark |-> FALSE,
           num |-> 0, on |-> FALSE]

NoRet == [call |-> NoCall, value |-> 0, err |-> nil, fns |-> <<>>]

Call(op, mode, lcv, ctx, addr, mark) ==
    [op |-> op, mode |-> mode, lcv |-> lcv, ctx |-> ctx, addr |-> addr,
     req |-> <<>>, i |-> 0, lastErr |-> nil, mark |-> mark,
     num |-> 0, on |-> FALSE]

IsPowerOnFrame(f) == Len(f) >= 6 /\ At0(f, 4) = \h21 /\ At0(f, 5) = \h81

\* track-power-restore frames among the frames handed to conn.Write
PowerOnCount(frames) ==
    Cardinality({k \in 1..Len(frames) : IsPowerOnFrame(frames[k])})

NoAwaited == [res |-> NoResult, err |-> nil]

\* no builder has run
NoBuilt == [by |-> "none", lcv |-> NoLcv, addr |-> 0, fnNum |-> 0, on |-> FALSE,
            speed |-> 0, forward |-> FALSE, speedSteps |-> 0, frame |-> <<>>,
            mode |-> "", cvNumber |-> 0, err |-> nil, prior |-> ZeroFnState,
            cvResponse |-> [res |-> NoResult, ok |-> FALSE],
            locoInfo |-> [state |-> ZeroFnState, err |-> nil],
            options |-> <<>>, ctx |-> DefaultCtx,
            lines |-> <<>>, separator |-> "",
            parsed |-> [entries |-> <<>>, err |-> nil],
            track |-> [track |-> "", err |-> nil],
            localFiles |-> <<>>, remoteFiles |-> <<>>, dryRun |-> FALSE,
            syncWithoutLast |-> FALSE,
            sync |-> [uploaded |-> {}, deleted |-> {}, changes |-> 0,
                      err |-> nil],
            alt |-> [frame |-> <<>>,
                     cvResponse |-> [res |-> NoResult, ok |-> FALSE],
                     locoInfo |-> [state |-> ZeroFnState, err |-> nil]]]

\* fnStateMu unlocked, no concurrent caller
NoCallers == [mu |-> 0, procs |-> <<>>]

\* no LocoApp action has started
NoApp == [action |-> "none", pc |-> "none", constructed |-> FALSE,
          deferred |-> <<>>, mode |-> "", input |-> <<>>, parseErr |-> nil,
          entries |-> <<>>, i |-> 0, lastError |-> nil, printed |-> <<>>,
          calls |-> <<>>, pending |-> [op |-> "", num |-> 0], err |-> nil]

\* WatchSoundSlot has not been called
NoWatch == [pc |-> "none", now |-> 0, events |-> <<>>, sent |-> 0,
            timer |-> [armed |-> FALSE, at |-> 0], running |-> 0,
            lastEvent |-> -1, lastReceived |-> -1, burst |-> 0,
            triggered |-> 0,
            failed |-> FALSE, err |-> nil]

Init ==
    /\ conn = "open"
    /\ wasPowerCutOff = FALSE
    /\ fnStateCache = <<>>
    /\ pc = "idle"
    /\ cur = NoCall
    /\ ret = NoRet
    /\ wire = <<>>
    /\ rx = <<>>
    /\ outcomes = <<>>
    /\ awaited = NoAwaited
    /\ progOps = 0
    /\ powerOnWrites = 0
    /\ built = NoBuilt
    /\ callers = NoCallers
    /\ app = NoApp
    /\ watch = NoWatch

\* the value the deferred markBuildTrackPowerOff stores in wasPowerCutOff
markBuildTrackPowerOff == TRUE

\* variant: the mark is deferred whatever the mode
DeferMark_anyMode(mode) == TRUE

\* "if mode == ProgrammingTrackMode { defer z.markBuildTrackPowerOff() }"
DeferMark(mode) == mode = ProgrammingTrackMode

\* a facade call returns: its deferred call runs, the caller is idle again
Finish(c, value, err, fns) ==
    /\ ret' = [call |-> c, value |-> value, err |-> err, fns |-> fns]
    /\ pc' = "idle"
    /\ cur' = NoCall
    /\ wasPowerCutOff' = IF c.mark THEN markBuildTrackPowerOff ELSE wasPowerCutOff

\* ReadCV after readCVValue returned (res, readErr)
ReadCVResult(res, readErr) ==
    IF readErr # nil
    THEN [value |-> 0, err |-> Wrap("cannot read CV", readErr)]
    ELSE [value |-> res.value, err |-> nil]

\* variant: the value read back is not compared
WriteCVVerifyResult_noCompare(lcv, res, readErr) ==
    IF readErr # nil THEN Wrap("cannot verify CV was written", readErr) ELSE nil

\* WriteCV's verify step after readCVValue returned (res, readErr)
WriteCVVerifyResult(lcv, res, readErr) ==
    IF readErr # nil THEN Wrap("cannot verify CV was written", readErr)
    ELSE IF res.value # Byte(lcv.Cv.Value)
    THEN <<"cannot write CV, the value differs after a write">>
    ELSE nil

\* the caller of readCVValue continues with what it returned
ReadDone(c, res, readErr) ==
    IF c.op = "ReadCV"
    THEN Finish(c, ReadCVResult(res, readErr).value, ReadCVResult(res, readErr).err, <<>>)
    ELSE Finish(c, 0, WriteCVVerifyResult(c.lcv, res, readErr), <<>>)

\* variant: the verifying read of WriteCV sends the write frame again
StartRead_rewrites(c) ==
    LET b == buildCVRequest(c.mode, c.lcv, c.op = "WriteCV")
    IN  IF b.err # nil
        THEN ReadDone(c, NoResult, Wrap("cannot build CV request", b.err))
        ELSE /\ pc' = "send"
             /\ cur' = [c EXCEPT !.req = b.req, !.i = 0, !.lastErr = nil]
             /\ ret' = NoRet
             /\ UNCHANGED wasPowerCutOff

\* readCVValue up to its loop: build the read request
StartRead(c) ==
    LET b == buildCVRequest(c.mode, c.lcv, FALSE)
    IN  IF b.err # nil
        THEN ReadDone(c, NoResult, Wrap("cannot build CV request", b.err))
        ELSE /\ pc' = "send"
             /\ cur' = [c EXCEPT !.req = b.req, !.i = 0, !.lastErr = nil]
             /\ ret' = NoRet
             /\ UNCHANGED wasPowerCutOff

ErrWrite == <<"write error">>

ErrRead == <<"read error">>

ErrResponseTimeout == <<"response timeout">>

ErrNoResponse == <<"no response or unrecognized response">>

\* how a sendAndAwait attempt ended
OutcomeKind(res, err) ==
    IF err = nil
    THEN (IF res.source = "LAN_X_CV_RESULT" THEN "result" ELSE "nack")
    ELSE "fail"

\* variant: the loop runs while i < retries
AttemptDone_oneLess(res, err) ==
    LET responseErr == IF err = nil THEN ResultError(res) ELSE nil
        lastErr == IF err = nil THEN Wrap("cannot read CV", responseErr) ELSE err
    IN  /\ outcomes' = Append(outcomes, OutcomeKind(res, err))
        /\ awaited' = [res |-> res, err |-> err]
        /\ IF err = nil /\ responseErr = nil
           THEN ReadDone(cur, res, nil)
           ELSE IF cur.i + 1 < cur.ctx.retries
           THEN /\ pc' = "send"
                /\ cur' = [cur EXCEPT !.i = @ + 1, !.lastErr = lastErr]
                /\ UNCHANGED <<ret, wasPowerCutOff>>
           ELSE ReadDone(cur, NoResult, lastErr)

\* the body of readCVValue's loop once sendAndAwait returned (res, err)
AttemptDone(res, err) ==
    LET responseErr == IF err = nil THEN ResultError(res) ELSE nil
        lastErr == IF err = nil THEN Wrap("cannot read CV", responseErr) ELSE err
    IN  /\ outcomes' = Append(outcomes, OutcomeKind(res, err))
        /\ awaited' = [res |-> res, err |-> err]
        /\ IF err = nil /\ responseErr = nil
           THEN ReadDone(cur, res, nil)
           ELSE IF cur.i + 1 <= cur.ctx.retries
           THEN /\ pc' = "send"
                /\ cur' = [cur EXCEPT !.i = @ + 1, !.lastErr = lastErr]
                /\ UNCHANGED <<ret, wasPowerCutOff>>
           ELSE ReadDone(cur, NoResult, lastErr)

\* ReadCV: context, deferred mark, then readCVValue
ReadCV(mode, lcv, options) ==
    LET ctx == applyMethodsToCtx(DefaultCtx, options)
        c == Call("ReadCV", mode, lcv, ctx, lcv.LocoId, DeferMark(mode))
    IN  /\ pc = "idle"
        /\ conn = "open"
        /\ mode = ProgrammingTrackMode => progOps < MaxProgOps
        /\ progOps' = IF mode = ProgrammingTrackMode THEN progOps + 1 ELSE progOps
        /\ wire' = <<>>
        /\ rx' = <<>>
        /\ outcomes' = <<>>
        /\ awaited' = NoAwaited
        /\ StartRead(c)
        /\ UNCHANGED <<conn, fnStateCache, powerOnWrites, built, callers, app, watch>>

\* WriteCV: build, deferred mark, one write, optional verifying read
WriteCV(mode, lcv, options, writeOk) ==
    LET ctx == applyMethodsToCtx(DefaultCtx, options)
        b == buildCVRequest(mode, lcv, TRUE)
        c == Call("WriteCV", mode, lcv, ctx, lcv.LocoId,
                  b.err = nil /\ DeferMark(mode))
        w == IF b.err = nil THEN <<b.req>> ELSE <<>>
    IN  /\ pc = "idle"
        /\ conn = "open"
        /\ mode = ProgrammingTrackMode => progOps < MaxProgOps
        /\ progOps' = IF mode = ProgrammingTrackMode THEN progOps + 1 ELSE progOps
        /\ wire' = w
        /\ powerOnWrites' = powerOnWrites + PowerOnCount(w)
        /\ rx' = <<>>
        /\ outcomes' = <<>>
        /\ awaited' = NoAwaited
        /\ IF b.err # nil
           THEN Finish(c, 0, Wrap("cannot build CV request in WriteCV", b.err), <<>>)
           ELSE IF ~writeOk
           THEN Finish(c, 0, Wrap("cannot write CV", ErrWrite), <<>>)
           ELSE IF ~ctx.verify
           THEN Finish(c, 0, nil, <<>>)
           ELSE StartRead(c)
        /\ UNCHANGED <<conn, fnStateCache, built, callers, app, watch>>

\* sendAndAwait: z.write(req)
SendAttempt(writeOk) ==
    /\ pc = "send"
    /\ wire' = Append(wire, cur.req)
    /\ powerOnWrites' = powerOnWrites + PowerOnCount(<<cur.req>>)
    /\ rx' = <<>>
    /\ IF writeOk
       THEN /\ pc' = "await"
            /\ UNCHANGED <<cur, ret, wasPowerCutOff, outcomes, awaited>>
       ELSE AttemptDone(NoResult, ErrWrite)
    /\ UNCHANGED <<conn, fnStateCache, progOps, built, callers, app, watch>>

\* sendAndAwait: the loop condition time.Now().Before(end) is false
DeadlinePassed ==
    /\ pc = "await"
    /\ AttemptDone(NoResult, ErrNoResponse)
    /\ UNCHANGED <<conn, fnStateCache, wire, rx, progOps, powerOnWrites, built,
                 callers, app, watch>>

\* variant: a datagram the parser rejects ends the attempt with an error
RecvDatagram_rejectFails(d) ==
    LET p == parseCVResponse(d)
    IN  /\ pc = "await"
        /\ IsPositive(cur.ctx.timeout)
        /\ rx' = d
        /\ IF p.ok
           THEN AttemptDone(p.res, nil)
           ELSE AttemptDone(NoResult, <<"unrecognized response">>)
        /\ UNCHANGED <<conn, fnStateCache, wire, progOps, powerOnWrites, built,
                     callers, app, watch>>

\* sendAndAwait: conn.Read returned a datagram
RecvDatagram(d) ==
    LET p == parseCVResponse(d)
    IN  /\ pc = "await"
        /\ IsPositive(cur.ctx.timeout)
        /\ rx' = d
        /\ IF p.ok
           THEN AttemptDone(p.res, nil)
           ELSE UNCHANGED <<pc, cur, ret, wasPowerCutOff, outcomes, awaited>>
        /\ UNCHANGED <<conn, fnStateCache, wire, progOps, powerOnWrites, built,
                     callers, app, watch>>

\* variant: a socket error that is no timeout ends the whole read
ReadFailed_fatal(err) ==
    /\ pc = "await"
    /\ IsPositive(cur.ctx.timeout)
    /\ IF err = "timeout"
       THEN AttemptDone(NoResult, ErrResponseTimeout)
       ELSE /\ outcomes' = Append(outcomes, "fail")
            /\ awaited' = [res |-> NoResult, err |-> ErrRead]
            /\ ReadDone(cur, NoResult, ErrRead)
    /\ UNCHANGED <<conn, fnStateCache, wire, rx, progOps, powerOnWrites, built,
                 callers, app, watch>>

\* sendAndAwait: conn.Read returned a timeout or another socket error
ReadFailed(err) ==
    /\ pc = "await"
    /\ IsPositive(cur.ctx.timeout)
    /\ AttemptDone(NoResult, IF err = "timeout" THEN ErrResponseTimeout ELSE ErrRead)
    /\ UNCHANGED <<conn, fnStateCache, wire, rx, progOps, powerOnWrites, built,
                 callers, app, watch>>

\* variant: the function number is not range-checked
SendFnCheck_noRange(mode, num) ==
    IF mode # MainTrackMode THEN <<"SendFn: unsupported mode">> ELSE nil

\* the two validations SendFn starts with
SendFnCheck(mode, num) ==
    IF mode # MainTrackMode THEN <<"SendFn: unsupported mode">>
    ELSE IF num < 0 \/ num > 31 THEN <<"SendFn: unsupported function number">>
    ELSE nil

SendFn(mode, addr, num, toggle, writeOk) ==
    LET c == [Call("SendFn", mode, NoLcv, DefaultCtx, addr, FALSE)
                EXCEPT !.num = num, !.on = toggle]
        e == SendFnCheck(mode, num)
        w == IF e = nil THEN <<buildSetLocoFunction(addr, num, toggle)>> ELSE <<>>
    IN  /\ pc = "idle"
        /\ conn = "open"
        /\ wire' = w
        /\ powerOnWrites' = powerOnWrites + PowerOnCount(w)
        /\ rx' = <<>>
        /\ outcomes' = <<>>
        /\ awaited' = NoAwaited
        /\ IF e # nil
           THEN /\ Finish(c, 0, e, <<>>)
                /\ UNCHANGED fnStateCache
           ELSE IF ~writeOk
           THEN /\ Finish(c, 0, Wrap("SendFn: cannot write function command", ErrWrite), <<>>)
                /\ UNCHANGED fnStateCache
           ELSE /\ fnStateCache' = updateFunctionStateCache(fnStateCache, addr, num, toggle)
                /\ Finish(c, 0, nil, <<>>)
        /\ UNCHANGED <<conn, progOps, built, callers, app, watch>>

\* ListFunctions up to its blocking conn.Read
ListFunctions(addr, writeOk) ==
    LET c == Call("ListFunctions", "", NoLcv, DefaultCtx, addr, FALSE)
        w == <<buildGetLocoInfo(addr)>>
    IN  /\ pc = "idle"
        /\ conn = "open"
        /\ wire' = w
        /\ powerOnWrites' = powerOnWrites + PowerOnCount(w)
        /\ rx' = <<>>
        /\ outcomes' = <<>>
        /\ awaited' = NoAwaited
        /\ IF ~writeOk
           THEN Finish(c, 0, Wrap("failed to send LAN_X_GET_LOCO_INFO", ErrWrite), <<>>)
           ELSE /\ pc' = "lf_await"
                /\ cur' = c
                /\ ret' = NoRet
                /\ UNCHANGED wasPowerCutOff
        /\ UNCHANGED <<conn, fnStateCache, progOps, built, callers, app, watch>>

\* ListFunctions: conn.Read returned a datagram
ListFunctionsRecv(d) ==
    LET p == parseLocoInfo(d)
    IN  /\ pc = "lf_await"
        /\ rx' = d
        /\ IF p.err # nil
           THEN /\ Finish(cur, 0, Wrap("failed to parse LAN_X_LOCO_INFO", p.err), <<>>)
                /\ UNCHANGED fnStateCache
           ELSE /\ fnStateCache' = CachePut(fnStateCache, cur.addr, p.state)
                /\ Finish(cur, 0, nil, ActiveFunctions(p.state, 0))
        /\ UNCHANGED <<conn, wire, outcomes, awaited, progOps, powerOnWrites, built,
                     callers, app, watch>>

\* ListFunctions: conn.Read returned a timeout or another socket error
ListFunctionsReadFailed(err) ==
    /\ pc = "lf_await"
    /\ Finish(cur, 0, Wrap("failed to read LAN_X_LOCO_INFO response",
                           IF err = "timeout" THEN <<"i/o timeout">> ELSE ErrRead), <<>>)
    /\ UNCHANGED <<conn, fnStateCache, wire, rx, outcomes, awaited, progOps,
                   powerOnWrites, built, callers, app, watch>>

\* variant: the restore frame is written whatever the flag says
CleanUp_alwaysRestores ==
    /\ pc = "idle"
    /\ conn = "open"
    /\ wire' = <<buildTrackPowerOn>>
    /\ powerOnWrites' = powerOnWrites + PowerOnCount(<<buildTrackPowerOn>>)
    /\ conn' = "closed"
    /\ pc' = "closed"
    /\ cur' = NoCall
    /\ ret' = [NoRet EXCEPT !.call.op = "CleanUp"]
    /\ rx' = <<>>
    /\ outcomes' = <<>>
    /\ awaited' = NoAwaited
    /\ UNCHANGED <<wasPowerCutOff, fnStateCache, progOps, built, callers, app, watch>>

\* CleanUp: the restore frame is built, its bytes are dropped, the socket closes
CleanUp ==
    LET dropped == IF wasPowerCutOff THEN buildTrackPowerOn ELSE <<>>
    IN  /\ pc = "idle"
        /\ conn = "open"
        /\ wire' = <<>>
        /\ conn' = "closed"
        /\ pc' = "closed"
        /\ cur' = NoCall
        /\ ret' = [NoRet EXCEPT !.call.op = "CleanUp"]
        /\ rx' = <<>>
        /\ outcomes' = <<>>
        /\ awaited' = NoAwaited
        /\ UNCHANGED <<wasPowerCutOff, fnStateCache, progOps, powerOnWrites, built,
                     callers, app, watch>>

ReadErrKinds == {"timeout", "error"}

Next ==
    \/ \E mode \in Modes, lcv \in LocoCVs, options \in ReadOptionLists :
          ReadCV(mode, lcv, options)
    \/ \E mode \in Modes, lcv \in LocoCVs, options \in WriteOptionLists,
          writeOk \in BOOLEAN : WriteCV(mode, lcv, options, writeOk)
    \/ \E writeOk \in BOOLEAN : SendAttempt(writeOk)
    \/ DeadlinePassed
    \/ \E d \in CVDatagrams : RecvDatagram(d)
    \/ \E err \in ReadErrKinds : ReadFailed(err)
    \/ \E mode \in {MainTrackMode, ProgrammingTrackMode}, addr \in FnAddrs,
          num \in FuncNums, toggle \in SessionToggles, writeOk \in BOOLEAN :
          SendFn(mode, addr, num, toggle, writeOk)
    \/ \E addr \in FnAddrs, writeOk \in BOOLEAN : ListFunctions(addr, writeOk)
    \/ \E d \in LocoInfoDatagrams : ListFunctionsRecv(d)
    \/ \E err \in ReadErrKinds : ListFunctionsReadFailed(err)
    \/ CleanUp

Spec == Init /\ [][Next]_vars

-----------------------------------------------------------------------------
(* The function session: one caller using SendFn, ListFunctions and        *)
(* CleanUp on several locomotives.                                         *)

FnSessionAddrs == {3, 200}

FnSessionFuncNums == {-1, 0, 29, 32}

FnNext ==
    \/ \E mode \in {MainTrackMode, ProgrammingTrackMode}, addr \in FnSessionAddrs,
          num \in FnSessionFuncNums, toggle \in BOOLEAN, writeOk \in BOOLEAN :
          SendFn(mode, addr, num, toggle, writeOk)
    \/ \E addr \in FnSessionAddrs, writeOk \in BOOLEAN : ListFunctions(addr, writeOk)
    \/ \E d \in LocoInfoDatagrams : ListFunctionsRecv(d)
    \/ \E err \in ReadErrKinds : ListFunctionsReadFailed(err)
    \/ CleanUp

SpecFn == Init /\ [][FnNext]_vars

-----------------------------------------------------------------------------
(* The concurrent specification: several goroutines call SendFn on one     *)
(* Z21Roco for the same address; every access to fnStateCache happens      *)
(* between fnStateMu.Lock() and the deferred fnStateMu.Unlock().           *)

Callers == 1..MaxCallers

\* the address all concurrent callers use
ConcAddr == CHOOSE a \in FnAddrs : TRUE

\* function numbers the concurrent callers pick from
ConcFuncNums == {0, 1, 5, 29}

\* a goroutine about to call SendFn(MainTrackMode, ConcAddr, num, on)
CallerStart(num, on) ==
    [pc |-> "start", num |-> num, on |-> on, state |-> ZeroFnState, err |-> nil]

\* the cache holds no entry, or an entry with these functions on
ConcCaches ==
    {<<>>, CachePut(<<>>, ConcAddr, [ZeroFnState EXCEPT !.B0_4 = \h13, !.B29_31 = 1])}

ConcInit ==
    /\ conn = "open"
    /\ wasPowerCutOff = FALSE
    /\ fnStateCache \in ConcCaches
    /\ pc = "idle"
    /\ cur = NoCall
    /\ ret = NoRet
    /\ wire = <<>>
    /\ rx = <<>>
    /\ outcomes = <<>>
    /\ awaited = NoAwaited
    /\ progOps = 0
    /\ powerOnWrites = 0
    /\ built = NoBuilt
    /\ \E nums \in [Callers -> ConcFuncNums], ons \in [Callers -> BOOLEAN] :
          /\ \A p, q \in Callers : p # q => nums[p] # nums[q]
          /\ callers = [mu |-> 0,
                        procs |-> [p \in Callers |-> CallerStart(nums[p], ons[p])]]
    /\ app = NoApp
    /\ watch = NoWatch

\* SendFn of caller p up to and including z.write(req)
ConcSendFnWrite(p, writeOk) ==
    LET me == callers.procs[p]
        e == SendFnCheck(MainTrackMode, me.num)
    IN  /\ me.pc = "start"
        /\ conn = "open"
        /\ IF e # nil
           THEN /\ callers' = [callers EXCEPT !.procs[p].pc = "done", !.procs[p].err = e]
                /\ UNCHANGED wire
           ELSE /\ wire' = Append(wire, buildSetLocoFunction(ConcAddr, me.num, me.on))
                /\ callers' = IF writeOk
                               THEN [callers EXCEPT !.procs[p].pc = "lock"]
                               ELSE [callers EXCEPT
                                       !.procs[p].pc = "done",
                                       !.procs[p].err =
                                           Wrap("SendFn: cannot write function command",
                                                ErrWrite)]
        /\ UNCHANGED <<conn, wasPowerCutOff, fnStateCache, pc, cur, ret, rx, outcomes,
                       awaited, progOps, powerOnWrites, built, app, watch>>

\* variant: Lock returns although another caller holds the mutex
ConcLock_noWait(p) ==
    /\ callers.procs[p].pc = "lock"
    /\ callers' = [callers EXCEPT !.mu = p, !.procs[p].pc = "load"]
    /\ UNCHANGED <<conn, wasPowerCutOff, fnStateCache, pc, cur, ret, wire, rx, outcomes,
                   awaited, progOps, powerOnWrites, built, app, watch>>

\* updateFunctionStateCache: z.fnStateMu.Lock()
ConcLock(p) ==
    /\ callers.procs[p].pc = "lock"
    /\ callers.mu = 0
    /\ callers' = [callers EXCEPT !.mu = p, !.procs[p].pc = "load"]
    /\ UNCHANGED <<conn, wasPowerCutOff, fnStateCache, pc, cur, ret, wire, rx, outcomes,
                   awaited, progOps, powerOnWrites, built, app, watch>>

\* updateFunctionStateCache: state, ok := z.fnStateCache[addr], then the switch
ConcLoad(p) ==
    LET me == callers.procs[p]
        state == IF ConcAddr \in DOMAIN fnStateCache
                 THEN fnStateCache[ConcAddr] ELSE ZeroFnState
    IN  /\ me.pc = "load"
        /\ callers' = [callers EXCEPT
                         !.procs[p].pc = "store",
                         !.procs[p].state = UpdateFnState(state, me.num, me.on)]
        /\ UNCHANGED <<conn, wasPowerCutOff, fnStateCache, pc, cur, ret, wire, rx,
                       outcomes, awaited, progOps, powerOnWrites, built, app, watch>>

\* updateFunctionStateCache: z.fnStateCache[addr] = state
ConcStore(p) ==
    LET me == callers.procs[p]
    IN  /\ me.pc = "store"
        /\ fnStateCache' = CachePut(fnStateCache, ConcAddr, me.state)
        /\ callers' = [callers EXCEPT !.procs[p].pc = "unlock",
                                      !.procs[p].state = ZeroFnState]
        /\ UNCHANGED <<conn, wasPowerCutOff, pc, cur, ret, wire, rx, outcomes, awaited,
                       progOps, powerOnWrites, built, app, watch>>

\* updateFunctionStateCache returns: the deferred z.fnStateMu.Unlock(), then
\* SendFn returns nil
ConcUnlock(p) ==
    /\ callers.procs[p].pc = "unlock"
    /\ callers' = [callers EXCEPT !.mu = 0, !.procs[p].pc = "done"]
    /\ UNCHANGED <<conn, wasPowerCutOff, fnStateCache, pc, cur, ret, wire, rx, outcomes,
                   awaited, progOps, powerOnWrites, built, app, watch>>

ConcNext ==
    \E p \in Callers :
        \/ \E writeOk \in BOOLEAN : ConcSendFnWrite(p, writeOk)
        \/ ConcLock(p)
        \/ ConcLoad(p)
        \/ ConcStore(p)
        \/ ConcUnlock(p)

SpecConc == ConcInit /\ [][ConcNext]_vars

\* concurrent callers of SendFn that all name the same function of ConcAddr
SameFnInit ==
    /\ conn = "open"
    /\ wasPowerCutOff = FALSE
    /\ fnStateCache \in ConcCaches
    /\ pc = "idle"
    /\ cur = NoCall
    /\ ret = NoRet
    /\ wire = <<>>
    /\ rx = <<>>
    /\ outcomes = <<>>
    /\ awaited = NoAwaited
    /\ progOps = 0
    /\ powerOnWrites = 0
    /\ built = NoBuilt
    /\ \E num \in ConcFuncNums, ons \in [Callers -> BOOLEAN] :
          callers = [mu |-> 0,
                     procs |-> [p \in Callers |-> CallerStart(num, ons[p])]]
    /\ app = NoApp
    /\ watch = NoWatch

SpecSameFn == SameFnInit /\ [][ConcNext]_vars

-----------------------------------------------------------------------------
(* The codec specification: one builder call on inputs of its type.        *)

CodecAddrs == {1, 3, 17, 127, 128, 255, 256, 10239}

CodecCVNums == {1, 2, 256, 257, 1024, 1025, 65535}

CodecValues == {0, 5, 255}

CodecLocoCVs ==
    {[LocoId |-> a, Cv |-> [Num |-> n, Value |-> v]] :
        a \in CodecAddrs, n \in CodecCVNums, v \in CodecValues}

CodecFuncNums == {0, 1, 4, 5, 28, 29, 31}

CodecSpeeds == {0, 1, 2, 15, 16, 28, 29, 127, 128, 255}

CodecSpeedSteps == {0, 2, 4}

CodecInit == Init

BuildPomRead(lcv) ==
    /\ built.by = "none"
    /\ built' = [NoBuilt EXCEPT !.by = "buildPomReadPacket", !.lcv = lcv,
                                !.frame = buildPomReadPacket(lcv)]
    /\ UNCHANGED sessionVars

BuildPomWrite(lcv) ==
    /\ built.by = "none"
    /\ built' = [NoBuilt EXCEPT !.by = "buildPomWriteByte", !.lcv = lcv,
                                !.frame = buildPomWriteByte(lcv)]
    /\ UNCHANGED sessionVars

BuildProgRead(lcv) ==
    /\ built.by = "none"
    /\ built' = [NoBuilt EXCEPT !.by = "buildProgReadPacket", !.lcv = lcv,
                                !.frame = buildProgReadPacket(lcv.Cv)]
    /\ UNCHANGED sessionVars

BuildProgWrite(lcv) ==
    /\ built.by = "none"
    /\ built' = [NoBuilt EXCEPT !.by = "buildProgWritePacket", !.lcv = lcv,
                                !.frame = buildProgWritePacket(lcv)]
    /\ UNCHANGED sessionVars

BuildTrackPowerOn ==
    /\ built.by = "none"
    /\ built' = [NoBuilt EXCEPT !.by = "buildTrackPowerOn", !.frame = buildTrackPowerOn]
    /\ UNCHANGED sessionVars

BuildGetLocoInfo(addr) ==
    /\ built.by = "none"
    /\ built' = [NoBuilt EXCEPT !.by = "buildGetLocoInfo", !.addr = addr,
                                !.frame = buildGetLocoInfo(addr)]
    /\ UNCHANGED sessionVars

BuildSetLocoFunction(addr, fnNum, on) ==
    /\ built.by = "none"
    /\ built' = [NoBuilt EXCEPT !.by = "buildSetLocoFunction", !.addr = addr,
                                !.fnNum = fnNum, !.on = on,
                                !.frame = buildSetLocoFunction(addr, fnNum, on)]
    /\ UNCHANGED sessionVars

BuildSetLocoSpeed(addr, speed, forward, speedSteps) ==
    /\ built.by = "none"
    /\ built' = [NoBuilt EXCEPT !.by = "buildSetLocoSpeed", !.addr = addr,
                                !.speed = speed, !.forward = forward,
                                !.speedSteps = speedSteps,
                                !.frame = buildSetLocoSpeed(addr, speed, forward, speedSteps)]
    /\ UNCHANGED sessionVars

CodecNext ==
    \/ \E lcv \in CodecLocoCVs : BuildPomRead(lcv)
    \/ \E lcv \in CodecLocoCVs : BuildPomWrite(lcv)
    \/ \E lcv \in CodecLocoCVs : BuildProgRead(lcv)
    \/ \E lcv \in CodecLocoCVs : BuildProgWrite(lcv)
    \/ BuildTrackPowerOn
    \/ \E addr \in CodecAddrs : BuildGetLocoInfo(addr)
    \/ \E addr \in CodecAddrs, fnNum \in CodecFuncNums, on \in BOOLEAN :
          BuildSetLocoFunction(addr, fnNum, on)
    \/ \E addr \in CodecAddrs, speed \in CodecSpeeds, forward \in BOOLEAN,
          speedSteps \in CodecSpeedSteps :
          BuildSetLocoSpeed(addr, speed, forward, speedSteps)

SpecCodec == CodecInit /\ [][CodecNext]_vars

-----------------------------------------------------------------------------
(* The speed specification: buildSetLocoSpeed on every uint8 speed.        *)

SpeedAddrs == {3, 200}

\* the selectors of 14, 28 and 128 speed steps
SpeedStepSelectors == {0, 2, 4}

SpeedNext ==
    \E addr \in SpeedAddrs, speed \in 0..255, forward \in BOOLEAN,
       speedSteps \in SpeedStepSelectors :
        BuildSetLocoSpeed(addr, speed, forward, speedSteps)

SpecSpeed == CodecInit /\ [][SpeedNext]_vars

-----------------------------------------------------------------------------
(* The CV request specification: the application parses the CV number the  *)
(* user typed and the station builds the request frame for it.             *)

\* strconv.ParseUint(cvNum, 10, 16) on the decimal text of n, as
\* ParseCVString uses it: numbers above 65535 are a range error
ParseCVNumber(n) ==
    IF n > 65535 THEN [num |-> 65535, err |-> <<"invalid CV number">>]
    ELSE [num |-> n, err |-> nil]

\* CV numbers a user may type
UserCVNumbers ==
    (0..16) \cup {255, 256, 257, 1023, 1024, 1025, 32767, 32768,
                  65534, 65535, 65536, 65537}

UserLocoIds == {3, 200}

\* ReadCVAction / SendCVAction for one entry, up to the frame of the request
CVRequest(mode, locoId, n, isWriteRequest) ==
    LET e == ParseCVNumber(n)
        lcv == [LocoId |-> locoId, Cv |-> [Num |-> e.num, Value |-> 0]]
        b == buildCVRequest(mode, lcv, isWriteRequest)
    IN  /\ built.by = "none"
        /\ built' = IF e.err # nil
                     THEN [NoBuilt EXCEPT !.by = "CVRequest", !.mode = mode,
                                          !.cvNumber = n, !.on = isWriteRequest,
                                          !.err = e.err]
                     ELSE [NoBuilt EXCEPT !.by = "CVRequest", !.mode = mode,
                                          !.cvNumber = n, !.on = isWriteRequest,
                                          !.lcv = lcv, !.err = b.err,
                                          !.frame = b.req]
        /\ UNCHANGED sessionVars

CVNext ==
    \E mode \in {MainTrackMode, ProgrammingTrackMode}, locoId \in UserLocoIds,
       n \in UserCVNumbers, isWriteRequest \in BOOLEAN :
       CVRequest(mode, locoId, n, isWriteRequest)

SpecCV == CodecInit /\ [][CVNext]_vars

-----------------------------------------------------------------------------
(* The function-state specification: one updateFunctionStateCache call on  *)
(* a cache entry holding any function bytes.                               *)

\* values of one function byte as a LAN_X_LOCO_INFO may have delivered it
FnByteValues == {0, \h15, \hFF}

FnStates ==
    [B0_4 : FnByteValues, B5_12 : FnByteValues, B13_20 : FnByteValues,
     B21_28 : FnByteValues, B29_31 : FnByteValues]

FnStateInit ==
    /\ conn = "open"
    /\ wasPowerCutOff = FALSE
    /\ fnStateCache \in {<<>>} \cup {CachePut(<<>>, a, s) : a \in FnAddrs, s \in FnStates}
    /\ pc = "idle"
    /\ cur = NoCall
    /\ ret = NoRet
    /\ wire = <<>>
    /\ rx = <<>>
    /\ outcomes = <<>>
    /\ awaited = NoAwaited
    /\ progOps = 0
    /\ powerOnWrites = 0
    /\ built = NoBuilt
    /\ callers = NoCallers
    /\ app = NoApp
    /\ watch = NoWatch

\* z.updateFunctionStateCache(addr, fnNum, on)
UpdateFunctionStateCache(addr, fnNum, on) ==
    /\ built.by = "none"
    /\ built' = [NoBuilt EXCEPT !.by = "updateFunctionStateCache", !.addr = addr,
                                !.fnNum = fnNum, !.on = on,
                                !.prior = IF addr \in DOMAIN fnStateCache
                                          THEN fnStateCache[addr] ELSE ZeroFnState]
    /\ fnStateCache' = updateFunctionStateCache(fnStateCache, addr, fnNum, on)
    /\ UNCHANGED <<conn, wasPowerCutOff, pc, cur, ret, wire, rx, outcomes, awaited,
                   progOps, powerOnWrites, callers, app, watch>>

FnStateNext ==
    \E addr \in FnAddrs, fnNum \in 0..31, on \in BOOLEAN :
        UpdateFunctionStateCache(addr, fnNum, on)

SpecFnState == FnStateInit /\ [][FnStateNext]_vars

-----------------------------------------------------------------------------
(* The parser specification: one received datagram is handed to            *)
(* parseCVResponse and to parseLocoInfo.                                   *)

\* well-formed datagrams a command station sends
StationFrames ==
    {ResultFrame(cv, v) : cv \in {0, 255, 256, 1023}, v \in {0, 255}}
        \cup {NackFrame, NackSCFrame, UnknownOpcodeFrame}
        \cup {LocoInfoFrame(3, <<4, 0, \h10, 0, 0, 0, 0>>),
              LocoInfoFrame(200, <<4, 0, \h10, 0>>)}

Damages == {"none", "lenPlus", "lenMinus", "lenHigh", "headerLow", "headerHigh",
            "cut", "padded", "paddedFixed"}

\* a datagram whose length or header field is off, or that lost or gained a byte
Damage(f, how) ==
    CASE how = "lenPlus" -> [f EXCEPT ![1] = (@ + 1) % 256]
      [] how = "lenMinus" -> [f EXCEPT ![1] = (@ + 255) % 256]
      [] how = "lenHigh" -> [f EXCEPT ![2] = 1]
      [] how = "headerLow" -> [f EXCEPT ![3] = \h41]
      [] how = "headerHigh" -> [f EXCEPT ![4] = 1]
      [] how = "cut" -> SubSeq(f, 1, Len(f) - 1)
      [] how = "padded" -> Append(f, 0)
      [] how = "paddedFixed" -> [Append(f, 0) EXCEPT ![1] = Len(f) + 1]
      [] OTHER -> f

\* the first k bytes of a datagram, declared as k bytes long
Prefix(f, k) == IF k = 0 THEN <<>> ELSE [SubSeq(f, 1, k) EXCEPT ![1] = k]

ReceivedDatagrams ==
    {Damage(f, how) : f \in StationFrames, how \in Damages}
        \cup UNION {{Prefix(f, k) : k \in 0..Len(f)} : f \in StationFrames}

ParseDatagram(pkt) ==
    /\ built.by = "none"
    /\ built' = [NoBuilt EXCEPT !.by = "parse", !.frame = pkt,
                                !.cvResponse = parseCVResponse(pkt),
                                !.locoInfo = parseLocoInfo(pkt)]
    /\ UNCHANGED sessionVars

ParseNext == \E pkt \in ReceivedDatagrams : ParseDatagram(pkt)

SpecParse == CodecInit /\ [][ParseNext]_vars

\* every value of the last byte of a datagram
TrailingBytes == 0..255

\* two datagrams that differ in nothing but their last byte go through the parsers
ParseDatagrams(pkt, trailing) ==
    /\ built.by = "none"
    /\ Len(pkt) > 0
    /\ LET other == [pkt EXCEPT ![Len(pkt)] = trailing]
       IN  built' = [NoBuilt EXCEPT !.by = "parsePair", !.frame = pkt,
                                    !.cvResponse = parseCVResponse(pkt),
                                    !.locoInfo = parseLocoInfo(pkt),
                                    !.alt = [frame |-> other,
                                             cvResponse |-> parseCVResponse(other),
                                             locoInfo |-> parseLocoInfo(other)]]
    /\ UNCHANGED sessionVars

ChecksumNext ==
    /\ built.by = "none"
    /\ \E pkt \in ReceivedDatagrams, trailing \in TrailingBytes :
          ParseDatagrams(pkt, trailing)

SpecChecksum == CodecInit /\ [][ChecksumNext]_vars

-----------------------------------------------------------------------------
(* The request-context specification: the first two statements of ReadCV   *)
(* and WriteCV on a list of options.                                       *)

\* options a caller may pass
CtxOptions ==
    {Timeout(Nanoseconds(0)), Timeout(Seconds(1)), Verify(TRUE), Verify(FALSE)}
        \cup {Retries(r) : r \in {0, 1, 255}}

\* lists of up to three options; an option may repeat
CtxOptionLists ==
    {<<>>} \cup {<<a>> : a \in CtxOptions}
           \cup {<<a, b>> : a \in CtxOptions, b \in CtxOptions}
           \cup {<<a, b, c>> : a \in CtxOptions, b \in CtxOptions, c \in CtxOptions}

\* ctx := RequestContext{...}; applyMethodsToCtx(&ctx, options)
NewRequestContext(options) ==
    /\ built.by = "none"
    /\ built' = [NoBuilt EXCEPT !.by = "RequestContext", !.options = options,
                                !.ctx = applyMethodsToCtx(DefaultCtx, options)]
    /\ UNCHANGED sessionVars

CtxNext == \E options \in CtxOptionLists : NewRequestContext(options)

SpecCtx == CodecInit /\ [][CtxNext]_vars

-----------------------------------------------------------------------------
(* The application: one LocoApp action per process run. The command        *)
(* station is seen through the Station interface: every call returns a     *)
(* value or an error.                                                      *)

\* one "cvN=V" item of the comma-separated list the user types
CVToken(n, v) == [Number |-> n, Value |-> v]

\* sort.Slice by Number over the keys of the map "unique"
RECURSIVE SortedNumbers(_)
SortedNumbers(S) ==
    IF S = {} THEN <<>>
    ELSE LET m == CHOOSE x \in S : \A y \in S : x <= y
         IN  <<m>> \o SortedNumbers(S \ {m})

\* unique[num] = val: the last item with a number decides its value
LastValue(tokens, n) ==
    LET K == {k \in 1..Len(tokens) : tokens[k].Number = n}
        m == CHOOSE k \in K : \A j \in K : j <= k
    IN  tokens[m].Value

\* the first item ParseUint(_, 10, 16) rejects, 0 when there is none
FirstBadToken(tokens) ==
    LET B == {k \in 1..Len(tokens) :
                 tokens[k].Number > 65535 \/ tokens[k].Value > 65535}
    IN  IF B = {} THEN 0 ELSE CHOOSE k \in B : \A j \in B : k <= j

\* variant: the entries come out in descending order
ParseCVString_descending(tokens) ==
    LET bad == FirstBadToken(tokens)
        nums == SortedNumbers({tokens[k].Number : k \in 1..Len(tokens)})
    IN  IF bad # 0
        THEN [entries |-> <<>>,
              err |-> IF ParseCVNumber(tokens[bad].Number).err # nil
                      THEN ParseCVNumber(tokens[bad].Number).err
                      ELSE <<"invalid CV value">>]
        ELSE [entries |-> [k \in 1..Len(nums) |->
                              CVToken(nums[Len(nums) + 1 - k],
                                      LastValue(tokens, nums[Len(nums) + 1 - k]))],
              err |-> nil]

\* ParseCVString on a list of items: range errors, then one entry per
\* distinct number, ascending
ParseCVString(tokens) ==
    LET bad == FirstBadToken(tokens)
        nums == SortedNumbers({tokens[k].Number : k \in 1..Len(tokens)})
    IN  IF bad # 0
        THEN [entries |-> <<>>,
              err |-> IF ParseCVNumber(tokens[bad].Number).err # nil
                      THEN ParseCVNumber(tokens[bad].Number).err
                      ELSE <<"invalid CV value">>]
        ELSE [entries |-> [k \in 1..Len(nums) |->
                              CVToken(nums[k], LastValue(tokens, nums[k]))],
              err |-> nil]

\* app.P.Printf(format, a, b)
Printf(format, a, b) == [format |-> format, a |-> a, b |-> b]

\* a call through the Station interface and what it returned
StationCall(op, num, value, err) ==
    [op |-> op, num |-> num, value |-> value, err |-> err]

\* "defer app.station.CleanUp()"
DeferredCleanUp == <<StationCall("CleanUp", 0, 0, nil)>>

ErrInitialize == <<"cannot initialize app">>

\* CV200 of the Railbox decoder: the function that switches the WiFi router
wifiCV == 200

\* variant: an action that returns an error skips its deferred calls
AppExit_errorSkips(a, err) ==
    [a EXCEPT !.pc = "done", !.err = err, !.deferred = <<>>,
              !.calls = IF err = nil THEN @ \o a.deferred ELSE @]

\* the action returns err: its deferred calls run
AppExit(a, err) ==
    [a EXCEPT !.pc = "done", !.err = err, !.deferred = <<>>,
              !.calls = @ \o a.deferred]

\* the action blocks in a call of the station
AppCall(a, op, num) ==
    [a EXCEPT !.pc = "call", !.pending = [op |-> op, num |-> num]]

\* initializeCommandStation, and the deferred CleanUp when it succeeded
Started(action, mode, input, initOk) ==
    [NoApp EXCEPT !.action = action, !.mode = mode, !.input = input,
                  !.constructed = initOk,
                  !.deferred = IF initOk THEN DeferredCleanUp ELSE <<>>]

\* the head of ReadCVAction's loop over the entries
ReadNext(a) ==
    IF a.i > Len(a.entries) THEN AppExit(a, a.lastError)
    ELSE AppCall(a, "ReadCV", a.entries[a.i].Number)

\* the head of SendCVAction's loop over the entries
WriteNext(a) ==
    IF a.i > Len(a.entries) THEN AppExit(a, nil)
    ELSE AppCall(a, "WriteCV", a.entries[a.i].Number)

ReadCVAction(mode, cvNumRaw, initOk) ==
    LET a == Started("ReadCVAction", mode, cvNumRaw, initOk)
        p == ParseCVString(cvNumRaw)
    IN  /\ app.pc = "none"
        /\ app' = IF ~initOk THEN AppExit(a, ErrInitialize)
                  ELSE IF p.err # nil
                  THEN AppExit([a EXCEPT !.parseErr = p.err], <<"invalid format">>)
                  ELSE ReadNext([a EXCEPT !.entries = p.entries, !.i = 1])
        /\ UNCHANGED <<conn, wasPowerCutOff, fnStateCache, pc, cur, ret, wire, rx,
                       outcomes, awaited, progOps, powerOnWrites, built, callers, watch>>

SendCVAction(mode, cvNumRaw, initOk) ==
    LET a == Started("SendCVAction", mode, cvNumRaw, initOk)
        p == ParseCVString(cvNumRaw)
    IN  /\ app.pc = "none"
        /\ app' = IF ~initOk THEN AppExit(a, ErrInitialize)
                  ELSE IF p.err # nil
                  THEN AppExit([a EXCEPT !.parseErr = p.err], p.err)
                  ELSE WriteNext([a EXCEPT !.entries = p.entries, !.i = 1])
        /\ UNCHANGED <<conn, wasPowerCutOff, fnStateCache, pc, cur, ret, wire, rx,
                       outcomes, awaited, progOps, powerOnWrites, built, callers, watch>>

\* SendFnAction, ListFnAction, SetSpeedAction, GetSpeedAction: one station call;
\* RBWifiAction: ReadCV(wifiCV), then SendFn
OneCallAction(action, mode, op, num, initOk) ==
    LET a == Started(action, mode, <<>>, initOk)
    IN  /\ app.pc = "none"
        /\ app' = IF ~initOk THEN AppExit(a, ErrInitialize)
                  ELSE AppCall(a, op, num)
        /\ UNCHANGED <<conn, wasPowerCutOff, fnStateCache, pc, cur, ret, wire, rx,
                       outcomes, awaited, progOps, powerOnWrites, built, callers, watch>>

SendFnAction(mode, fnNum, initOk) ==
    OneCallAction("SendFnAction", mode, "SendFn", fnNum, initOk)

ListFnAction(initOk) == OneCallAction("ListFnAction", "", "ListFunctions", 0, initOk)

RBWifiAction(mode, initOk) ==
    OneCallAction("RBWifiAction", mode, "ReadCV", wifiCV, initOk)

SetSpeedAction(initOk) == OneCallAction("SetSpeedAction", "", "SetSpeed", 0, initOk)

GetSpeedAction(initOk) == OneCallAction("GetSpeedAction", "", "GetSpeed", 0, initOk)

\* ReadCVAction after ReadCV returned (result, err)
ReadCVReturned(a, result, err) ==
    LET entry == a.entries[a.i]
    IN  IF Len(a.entries) > 1
        THEN IF err # nil
             THEN ReadNext([a EXCEPT
                      !.printed = Append(@, Printf("cv%d=ERROR\n", entry.Number, 0)),
                      !.lastError = err, !.i = @ + 1])
             ELSE ReadNext([a EXCEPT
                      !.printed = Append(@, Printf("cv%d=%d\n", entry.Number, result)),
                      !.i = @ + 1])
        ELSE IF err # nil THEN AppExit(a, err)
             ELSE ReadNext([a EXCEPT
                      !.printed = Append(@, Printf("%d\n", result, 0)), !.i = @ + 1])

\* SendCVAction after WriteCV returned writeErr (and the settle sleep)
WriteCVReturned(a, writeErr) ==
    IF writeErr # nil THEN AppExit(a, writeErr)
    ELSE WriteNext([a EXCEPT !.i = @ + 1])

RECURSIVE PrintFunctions(_)
PrintFunctions(fns) ==
    IF fns = <<>> THEN <<>>
    ELSE <<Printf("F%d = On\n", Head(fns), 0)>> \o PrintFunctions(Tail(fns))

\* ListFnAction after ListFunctions returned (activeFunctions, err)
ListFunctionsReturned(a, activeFunctions, err) ==
    IF err # nil THEN AppExit(a, err)
    ELSE AppExit([a EXCEPT !.printed =
                     IF Len(activeFunctions) = 0
                     THEN <<Printf("No active functions\n", 0, 0)>>
                     ELSE PrintFunctions(activeFunctions)], nil)

\* RBWifiAction after ReadCV or SendFn returned
RBWifiReturned(a, op, fnNum, err) ==
    IF op = "SendFn" THEN AppExit(a, err)
    ELSE IF err # nil
    THEN AppExit(a, Wrap("failed to read CV200 (WiFi function number)", err))
    ELSE AppCall(a, "SendFn", fnNum)

\* errors a station call may return
StationErrs == {<<"cannot read CV", "response timeout">>,
                <<"cannot read CV", "read error">>}

\* values a station call may return with a nil error
StationValues(op) ==
    CASE op = "ReadCV" -> {0, 5}
      [] op = "ListFunctions" -> {<<>>, <<0, 3>>}
      [] OTHER -> {0}

\* the value Go returns next to a non-nil error
ZeroValue(op) == IF op = "ListFunctions" THEN <<>> ELSE 0

\* the pending station call returns and the action goes on
StationReturns(value, err) ==
    LET op == app.pending.op
        a == [app EXCEPT !.calls =
                 Append(@, StationCall(op, app.pending.num, value, err))]
    IN  /\ app.pc = "call"
        /\ err # nil => value = ZeroValue(op)
        /\ app' = CASE app.action = "ReadCVAction" -> ReadCVReturned(a, value, err)
                    [] app.action = "SendCVAction" -> WriteCVReturned(a, err)
                    [] app.action = "ListFnAction" ->
                          ListFunctionsReturned(a, value, err)
                    [] app.action = "RBWifiAction" -> RBWifiReturned(a, op, value, err)
                    [] OTHER -> AppExit(a, err)
        /\ UNCHANGED <<conn, wasPowerCutOff, fnStateCache, pc, cur, ret, wire, rx,
                       outcomes, awaited, progOps, powerOnWrites, built, callers, watch>>

AppInit == Init

\* numbers and values of the items a user lists
AppCVNumbers == {1, 2, 29, 65536}

AppCVValues == {0, 7}

AppTokens == {CVToken(n, v) : n \in AppCVNumbers, v \in AppCVValues}

\* lists of up to three items; a number may repeat
AppCVLists ==
    {<<>>} \cup {<<t>> : t \in AppTokens}
           \cup {<<t, u>> : t \in AppTokens, u \in AppTokens}
           \cup {<<CVToken(n1, 0), CVToken(n2, 0), CVToken(n3, 0)>> :
                    n1 \in AppCVNumbers, n2 \in AppCVNumbers, n3 \in AppCVNumbers}

AppNext ==
    \/ \E mode \in Modes, cvNumRaw \in AppCVLists, initOk \in BOOLEAN :
          ReadCVAction(mode, cvNumRaw, initOk)
    \/ \E mode \in Modes, cvNumRaw \in AppCVLists, initOk \in BOOLEAN :
          SendCVAction(mode, cvNumRaw, initOk)
    \/ \E mode \in Modes, fnNum \in FuncNums, initOk \in BOOLEAN :
          SendFnAction(mode, fnNum, initOk)
    \/ \E initOk \in BOOLEAN : ListFnAction(initOk)
    \/ \E mode \in Modes, initOk \in BOOLEAN : RBWifiAction(mode, initOk)
    \/ \E initOk \in BOOLEAN : SetSpeedAction(initOk)
    \/ \E initOk \in BOOLEAN : GetSpeedAction(initOk)
    \/ \E err \in {nil} \cup StationErrs, value \in StationValues(app.pending.op) :
          StationReturns(value, err)

SpecApp == AppInit /\ [][AppNext]_vars

-----------------------------------------------------------------------------
(* The CV list syntax (package syntax). A text is a sequence of             *)
(* one-character strings.                                                   *)

Digits == <<"0", "1", "2", "3", "4", "5", "6", "7", "8", "9">>

IsDigit(c) == \E d \in 1..10 : Digits[d] = c

DigitValue(c) == (CHOOSE d \in 1..10 : Digits[d] = c) - 1

\* unicode.IsSpace on the characters of the inputs
Spaces == {" ", "\t", "\n", "\r"}

\* strings.Index(s, c) for a one-character c: 0-based, -1 when absent
Index(s, c) ==
    LET K == {k \in 1..Len(s) : s[k] = c}
    IN  IF K = {} THEN -1 ELSE (CHOOSE k \in K : \A j \in K : k <= j) - 1

\* strings.Split(s, sep) for a one-character sep
RECURSIVE Split(_, _)
Split(s, sep) ==
    LET idx == Index(s, sep)
    IN  IF idx = -1 THEN <<s>>
        ELSE <<SubSeq(s, 1, idx)>> \o Split(SubSeq(s, idx + 2, Len(s)), sep)

\* strings.SplitN(s, sep, 2)
SplitN(s, sep) ==
    LET idx == Index(s, sep)
    IN  IF idx = -1 THEN <<s>>
        ELSE <<SubSeq(s, 1, idx), SubSeq(s, idx + 2, Len(s))>>

\* strings.TrimSpace
RECURSIVE TrimSpace(_)
TrimSpace(s) ==
    IF s = <<>> THEN s
    ELSE IF Head(s) \in Spaces THEN TrimSpace(Tail(s))
    ELSE IF s[Len(s)] \in Spaces THEN TrimSpace(SubSeq(s, 1, Len(s) - 1))
    ELSE s

\* strings.HasPrefix
HasPrefix(s, prefix) ==
    Len(s) >= Len(prefix) /\ SubSeq(s, 1, Len(prefix)) = prefix

\* strings.TrimPrefix
TrimPrefix(s, prefix) ==
    IF HasPrefix(s, prefix) THEN SubSeq(s, Len(prefix) + 1, Len(s)) ELSE s

\* strings.ToLower on the letters of the inputs
ToLower(s) ==
    [k \in 1..Len(s) |-> CASE s[k] = "C" -> "c" [] s[k] = "V" -> "v"
                           [] OTHER -> s[k]]

RECURSIVE DecimalValue(_)
DecimalValue(s) ==
    IF s = <<>> THEN 0
    ELSE 10 * DecimalValue(SubSeq(s, 1, Len(s) - 1)) + DigitValue(s[Len(s)])

\* strconv.ParseUint(s, 10, 16): digits only, at least one, at most 65535
ParseUint(s) ==
    IF s = <<>> \/ \E k \in 1..Len(s) : ~IsDigit(s[k])
    THEN [val |-> 0, err |-> <<"invalid syntax">>]
    ELSE IF DecimalValue(s) > 65535
    THEN [val |-> 65535, err |-> <<"value out of range">>]
    ELSE [val |-> DecimalValue(s), err |-> nil]

\* variant: an entry that is seen again keeps its first value
ParseLine_firstWins(lines, unique) ==
    LET line0 == TrimSpace(Head(lines))
        idx == Index(line0, "#")
        line == IF idx # -1 THEN TrimSpace(SubSeq(line0, 1, idx)) ELSE line0
        parts == SplitN(line, "=")
        cvNum == IF Len(parts) = 2 THEN TrimSpace(parts[1]) ELSE TrimSpace(line)
        cvVal == IF Len(parts) = 2 THEN TrimSpace(parts[2]) ELSE <<"0">>
        num == ParseUint(TrimPrefix(ToLower(cvNum), <<"c", "v">>))
        val == ParseUint(cvVal)
    IN  IF line0 = <<>> \/ HasPrefix(line0, <<"#">>) \/ line = <<>>
        THEN [unique |-> unique, err |-> nil]
        ELSE IF num.err # nil
        THEN [unique |-> unique, err |-> <<"invalid CV number">>]
        ELSE IF val.err # nil
        THEN [unique |-> unique, err |-> <<"invalid CV value">>]
        ELSE [unique |->
                 [n \in (DOMAIN unique) \cup {num.val} |->
                     IF n \in DOMAIN unique THEN unique[n] ELSE val.val],
              err |-> nil]

\* the body of the loop over the lines, on the first of them: unique is the
\* map so far
ParseLine(lines, unique) ==
    LET line0 == TrimSpace(Head(lines))
        idx == Index(line0, "#")
        line == IF idx # -1 THEN TrimSpace(SubSeq(line0, 1, idx)) ELSE line0
        parts == SplitN(line, "=")
        cvNum == IF Len(parts) = 2 THEN TrimSpace(parts[1]) ELSE TrimSpace(line)
        cvVal == IF Len(parts) = 2 THEN TrimSpace(parts[2]) ELSE <<"0">>
        num == ParseUint(TrimPrefix(ToLower(cvNum), <<"c", "v">>))
        val == ParseUint(cvVal)
    IN  IF line0 = <<>> \/ HasPrefix(line0, <<"#">>) \/ line = <<>>
        THEN [unique |-> unique, err |-> nil]
        ELSE IF num.err # nil
        THEN [unique |-> unique, err |-> <<"invalid CV number">>]
        ELSE IF val.err # nil
        THEN [unique |-> unique, err |-> <<"invalid CV value">>]
        ELSE [unique |->
                 [n \in (DOMAIN unique) \cup {num.val} |->
                     IF n = num.val THEN val.val ELSE unique[n]],
              err |-> nil]

\* for _, line := range lines: the first error returns
RECURSIVE ParseLines(_, _)
ParseLines(lines, unique) ==
    IF lines = <<>> THEN [unique |-> unique, err |-> nil]
    ELSE LET r == ParseLine(lines, unique)
         IN  IF r.err # nil THEN r ELSE ParseLines(Tail(lines), r.unique)

\* syntax.ParseCVString on a text
ParseCVStringText(input, separator) ==
    LET sep == IF separator = "" THEN "\n" ELSE separator
        r == ParseLines(Split(input, sep), <<>>)
        nums == SortedNumbers(DOMAIN r.unique)
    IN  IF r.err # nil THEN [entries |-> <<>>, err |-> r.err]
        ELSE [entries |-> [k \in 1..Len(nums) |->
                              CVToken(nums[k], r.unique[nums[k]])],
              err |-> nil]

\* most entries of one input text
MaxEntries == 2

\* entries a user types, single ones and ranges
SingleEntries ==
    { <<"c", "v", "1", "=", "1", "7">>,
      <<"C", "V", "1", "=", "2">>,
      <<"c", "v", "1">>,
      <<" ", "C", "V", "2", " ", "=", " ", "3", " ">>,
      <<"c", "v", "2", "=", "5", " ", "#", " ", "x">>,
      <<"c", "v", "6", "=", "7">>,
      <<"2", "=", "2", "5", "5">>,
      <<"c", "v", "3", "=", "9">> }

BlankEntries ==
    { <<>>, <<" ">>, <<"#", "c", "v", "2", "=", "5">>,
      <<" ", "#", " ", "x">> }

RangeEntries ==
    { <<"c", "v", "1", "-", "c", "v", "3">>,
      <<"c", "v", "1", "-", "c", "v", "3", "=", "7">>,
      <<"c", "v", "2", "-", "c", "v", "2", "=", "5">> }

BadEntries ==
    { <<"c", "v", "x">>, <<"c", "v", "1", "=", "x">>,
      <<"c", "v", "6", "5", "5", "3", "6">>,
      <<"c", "v", "1", "=", "6", "5", "5", "3", "6">>,
      <<"c", "v", "1", "=", "2", "=", "3">> }

TypedEntries == SingleEntries \cup BlankEntries \cup RangeEntries \cup BadEntries

TypedLists ==
    UNION {[1..n -> TypedEntries] : n \in 1..MaxEntries}

\* the text of a list of entries
RECURSIVE Join(_, _)
Join(lines, sep) ==
    IF Len(lines) = 1 THEN lines[1]
    ELSE lines[1] \o <<sep>> \o Join(Tail(lines), sep)

ParseText(lines, separator) ==
    /\ built.by = "none"
    /\ built' = [NoBuilt EXCEPT !.by = "ParseCVString", !.lines = lines,
                    !.separator = separator,
                    !.parsed = ParseCVStringText(
                        Join(lines, IF separator = "" THEN "\n" ELSE separator),
                        separator)]
    /\ UNCHANGED sessionVars

SyntaxNext == \E lines \in TypedLists, separator \in {"", ","} :
                  ParseText(lines, separator)

SpecSyntax == CodecInit /\ [][SyntaxNext]_vars

-----------------------------------------------------------------------------
(* The track selection of the cv commands (package cli).                    *)

\* variant: an empty track is always the main track
trackOrDefault_alwaysPom(chosenTrack, locoId) ==
    IF chosenTrack # "" /\ chosenTrack # "pom" /\ chosenTrack # "prog"
    THEN [track |-> "", err |-> <<"invalid track type">>]
    ELSE IF chosenTrack = ""
    THEN [track |-> "pom", err |-> nil]
    ELSE [track |-> chosenTrack, err |-> nil]

trackOrDefault(chosenTrack, locoId) ==
    IF chosenTrack # "" /\ chosenTrack # "pom" /\ chosenTrack # "prog"
    THEN [track |-> "", err |-> <<"invalid track type">>]
    ELSE IF chosenTrack = ""
    THEN [track |-> IF locoId = 0 THEN "prog" ELSE "pom", err |-> nil]
    ELSE [track |-> chosenTrack, err |-> nil]

\* values of the --track flag
TrackFlags == {"", "pom", "prog", "POM", "Prog", " pom", "main", "invalid"}

\* values of the --loco flag, a uint8
LocoFlags == 0..255

TrackOrDefault(chosenTrack, locoId) ==
    /\ built.by = "none"
    /\ built' = [NoBuilt EXCEPT !.by = "trackOrDefault", !.mode = chosenTrack,
                    !.addr = locoId,
                    !.track = trackOrDefault(chosenTrack, locoId)]
    /\ UNCHANGED sessionVars

TrackNext == \E chosenTrack \in TrackFlags, locoId \in LocoFlags :
                 TrackOrDefault(chosenTrack, locoId)

SpecTrack == CodecInit /\ [][TrackNext]_vars

-----------------------------------------------------------------------------
(* The sound slot synchronisation (LocoApp.SyncSoundSlot). The decoder is   *)
(* seen through ListSoundSlot, UploadSoundFile and DeleteSoundFile.         *)

\* localSizeKB := (local.sizeBytes + 1023) / 1024
LocalSizeKB(sizeBytes) == (sizeBytes + 1023) \div 1024

\* the files of recentlyModified: modified within the last 24 h, the five
\* newest of them (a directory here holds fewer than five files)
RecentlyModified(localFiles, syncWithoutLast) ==
    IF syncWithoutLast THEN {}
    ELSE {name \in DOMAIN localFiles : localFiles[name].recent}

\* the upload loop takes up a local file: it does not "continue"
NeedsUpload(name, localFiles, remoteFiles, recentlyModified) ==
    IF name \in DOMAIN remoteFiles
    THEN LET d == LocalSizeKB(localFiles[name].sizeBytes) - remoteFiles[name]
             diff == IF d < 0 THEN -d ELSE d
         IN  IF diff <= 1 THEN name \in recentlyModified ELSE TRUE
    ELSE TRUE

\* SyncSoundSlot: failed is the file whose upload or deletion fails ("" when
\* none does), earlier the files the map iteration visits before it
SyncSoundSlot(localFiles, remoteFiles, dryRun, syncWithoutLast, listOk, failed, earlier) ==
    LET recentlyModified == RecentlyModified(localFiles, syncWithoutLast)
        toUpload == {name \in DOMAIN localFiles :
                        NeedsUpload(name, localFiles, remoteFiles,
                                    recentlyModified)}
        toDelete == (DOMAIN remoteFiles) \ (DOMAIN localFiles)
    IN  IF ~listOk
        THEN [uploaded |-> {}, deleted |-> {}, changes |-> 0,
              err |-> <<"cannot list slot on decoder">>]
        ELSE IF dryRun
        THEN [uploaded |-> {}, deleted |-> {},
              changes |-> Cardinality(toUpload) + Cardinality(toDelete),
              err |-> nil]
        ELSE IF failed \in toUpload
        THEN [uploaded |-> (toUpload \ {failed}) \cap earlier, deleted |-> {},
              changes |-> Cardinality((toUpload \ {failed}) \cap earlier) + 1,
              err |-> <<"upload failed">>]
        ELSE IF failed \in toDelete
        THEN [uploaded |-> toUpload,
              deleted |-> (toDelete \ {failed}) \cap earlier,
              changes |-> Cardinality(toUpload)
                          + Cardinality((toDelete \ {failed}) \cap earlier) + 1,
              err |-> <<"delete failed">>]
        ELSE [uploaded |-> toUpload, deleted |-> toDelete,
              changes |-> Cardinality(toUpload) + Cardinality(toDelete),
              err |-> nil]

\* file names of a directory and of a slot
SoundFiles == {"a.wav", "b.wav"}

LocalInfos == [sizeBytes : {1024, 1025, 3000}, recent : BOOLEAN]

LocalDirs == UNION {[S -> LocalInfos] : S \in SUBSET SoundFiles}

\* sizes in KB the decoder reports
RemoteSlots == UNION {[S -> {1, 2, 5}] : S \in SUBSET SoundFiles}

Sync(localFiles, remoteFiles, dryRun, syncWithoutLast, listOk, failed, earlier) ==
    /\ built.by = "none"
    /\ built' = [NoBuilt EXCEPT !.by = "SyncSoundSlot",
                    !.localFiles = localFiles, !.remoteFiles = remoteFiles,
                    !.dryRun = dryRun, !.syncWithoutLast = syncWithoutLast,
                    !.sync = SyncSoundSlot(localFiles, remoteFiles, dryRun,
                                           syncWithoutLast, listOk, failed,
                                           earlier)]
    /\ UNCHANGED sessionVars

SyncNext ==
    /\ built.by = "none"
    /\ \E localFiles \in LocalDirs, remoteFiles \in RemoteSlots,
          dryRun \in BOOLEAN, syncWithoutLast \in BOOLEAN, listOk \in BOOLEAN,
          failed \in SoundFiles \cup {""}, earlier \in SUBSET SoundFiles :
             Sync(localFiles, remoteFiles, dryRun, syncWithoutLast, listOk,
                  failed, earlier)

SpecSync == CodecInit /\ [][SyncNext]_vars

-----------------------------------------------------------------------------
(* The watch loop (LocoApp.WatchSoundSlot): the goroutine of the loop, the  *)
(* debounce timer and the goroutines time.AfterFunc starts. The clock       *)
(* counts tenths of a second.                                               *)

\* most tenths of a second a run lasts
MaxTicks == 10

\* most file events of a run
MaxEvents == 3

\* most runSync goroutines in progress together
MaxSyncs == 2

\* const debounce = 500 * time.Millisecond, in milliseconds
debounce == 500

DebounceTicks == debounce \div 100

\* fsnotify operations of an event
EventOps == {"write", "create", "remove", "chmod"}

\* event.Has(fsnotify.Write) || event.Has(fsnotify.Create) || event.Has(fsnotify.Remove)
IsChange(op) == op \in {"write", "create", "remove"}

notWatch == <<conn, wasPowerCutOff, fnStateCache, pc, cur, ret, wire, rx,
              outcomes, awaited, progOps, powerOnWrites, built, callers, app>>

\* WatchSoundSlot up to the call of the initial runSync
WatchSoundSlot(watcherOk, addOk) ==
    /\ watch.pc = "none"
    /\ watch' = IF ~watcherOk
                THEN [watch EXCEPT !.pc = "returned",
                         !.err = <<"cannot create filesystem watcher">>]
                ELSE IF ~addOk
                THEN [watch EXCEPT !.pc = "returned",
                         !.err = <<"cannot watch directory">>]
                ELSE [watch EXCEPT !.pc = "initial", !.running = 1]
    /\ UNCHANGED notWatch

\* runSync("starting initial sync") returns: its error is printed
InitialSyncDone(syncErr) ==
    /\ watch.pc = "initial"
    /\ watch' = [watch EXCEPT !.pc = "select", !.running = @ - 1,
                    !.failed = @ \/ syncErr # nil]
    /\ UNCHANGED notWatch

\* the file system reports an event: it waits in watcher.Events (an event
\* at the very instant of the timer's deadline counts as after it)
FileEvent(op) ==
    /\ watch.pc \in {"initial", "select"}
    /\ watch.sent < MaxEvents
    /\ ~(watch.timer.armed /\ watch.timer.at = watch.now)
    /\ watch' = [watch EXCEPT !.events = Append(@, op), !.sent = @ + 1,
                    !.lastEvent = IF IsChange(op) THEN watch.now ELSE @]
    /\ UNCHANGED notWatch

\* variant: the timer keeps its first deadline
ReceiveEvent_keepsTimer ==
    /\ watch.pc = "select"
    /\ watch.events # <<>>
    /\ watch' = IF IsChange(Head(watch.events))
                THEN [watch EXCEPT !.events = Tail(@),
                         !.timer = IF @.armed THEN @
                                   ELSE [armed |-> TRUE,
                                         at |-> watch.now + DebounceTicks],
                         !.lastReceived = watch.now,
                         !.burst = IF watch.timer.armed THEN @ + 1 ELSE 1,
                         !.triggered = 0]
                ELSE [watch EXCEPT !.events = Tail(@)]
    /\ UNCHANGED notWatch

\* case event, ok := <-watcher.Events (ok): timer.Stop() and a new AfterFunc
ReceiveEvent ==
    /\ watch.pc = "select"
    /\ watch.events # <<>>
    /\ watch' = IF IsChange(Head(watch.events))
                THEN [watch EXCEPT !.events = Tail(@),
                         !.timer = [armed |-> TRUE,
                                    at |-> watch.now + DebounceTicks],
                         !.lastReceived = watch.now,
                         !.burst = IF watch.timer.armed THEN @ + 1 ELSE 1,
                         !.triggered = 0]
                ELSE [watch EXCEPT !.events = Tail(@)]
    /\ UNCHANGED notWatch

\* case watchErr, ok := <-watcher.Errors (ok): printed, the loop goes on
ReceiveError ==
    /\ watch.pc = "select"
    /\ watch' = watch
    /\ UNCHANGED notWatch

\* a channel of the watcher is closed: return nil, and the deferred
\* watcher.Close() drops what waits in watcher.Events
WatcherClosed ==
    /\ watch.pc = "select"
    /\ watch' = [watch EXCEPT !.pc = "returned", !.events = <<>>]
    /\ UNCHANGED notWatch

\* the timer reaches its deadline: runSync("change detected") starts in a
\* goroutine of its own
TimerFires ==
    /\ watch.timer.armed
    /\ watch.timer.at = watch.now
    /\ watch.running < MaxSyncs
    /\ watch' = [watch EXCEPT !.timer = [armed |-> FALSE, at |-> 0],
                    !.running = @ + 1, !.triggered = @ + 1]
    /\ UNCHANGED notWatch

\* a runSync started by the timer returns: its error is printed
TriggeredSyncDone(syncErr) ==
    /\ watch.pc # "initial"
    /\ watch.running > 0
    /\ watch' = [watch EXCEPT !.running = @ - 1,
                    !.failed = @ \/ syncErr # nil]
    /\ UNCHANGED notWatch

\* a tenth of a second passes: not past a deadline of the timer, and not
\* while the loop waits in select with an event to receive
Tick ==
    /\ watch.pc \in {"initial", "select"}
    /\ watch.now < MaxTicks
    /\ ~(watch.timer.armed /\ watch.timer.at = watch.now)
    /\ ~(watch.pc = "select" /\ watch.events # <<>>)
    /\ watch' = [watch EXCEPT !.now = @ + 1]
    /\ UNCHANGED notWatch

SyncErrs == {nil, <<"cannot list slot on decoder">>}

WatchNext ==
    \/ \E watcherOk \in BOOLEAN, addOk \in BOOLEAN : WatchSoundSlot(watcherOk, addOk)
    \/ \E syncErr \in SyncErrs : InitialSyncDone(syncErr)
    \/ \E op \in EventOps : FileEvent(op)
    \/ ReceiveEvent
    \/ ReceiveError
    \/ WatcherClosed
    \/ TimerFires
    \/ \E syncErr \in SyncErrs : TriggeredSyncDone(syncErr)
    \/ Tick

SpecWatch == Init /\ [][WatchNext]_vars

-----------------------------------------------------------------------------
(* CV calls and the replies of the station: a session whose datagrams       *)
(* carry results for the CV asked for and for another one, and whose        *)
(* callers ask for values of the CV syntax (uint16).                        *)

\* CV1 with a value that fits a byte and one that does not
ReplyLocoCVs == {[LocoId |-> 3, Cv |-> [Num |-> 1, Value |-> v]] : v \in {5, 261}}

\* results for wire CV 0 (CV1) and for wire CV 7 (CV8)
ReplyDatagrams == {ResultFrame(0, 5), ResultFrame(0, 6), ResultFrame(7, 5), NackFrame}

ReplyNext ==
    \/ \E mode \in {MainTrackMode, ProgrammingTrackMode}, lcv \in ReplyLocoCVs :
          ReadCV(mode, lcv, <<>>)
    \/ \E mode \in {MainTrackMode, ProgrammingTrackMode}, lcv \in ReplyLocoCVs,
          options \in {<<>>, <<Verify(TRUE)>>}, writeOk \in BOOLEAN :
          WriteCV(mode, lcv, options, writeOk)
    \/ \E writeOk \in BOOLEAN : SendAttempt(writeOk)
    \/ DeadlinePassed
    \/ \E d \in ReplyDatagrams : RecvDatagram(d)
    \/ \E err \in ReadErrKinds : ReadFailed(err)

SpecReply == Init /\ [][ReplyNext]_vars

-----------------------------------------------------------------------------
(* Properties.                                                             *)

Range(f) == {f[k] : k \in DOMAIN f}

CVOps == {"ReadCV", "WriteCV"}

ErrVerifyMismatch == <<"cannot write CV, the value differs after a write">>

\* the errors a sendAndAwait attempt returns when the deadline is over
TimeoutErrs == {ErrResponseTimeout, ErrNoResponse}

\* the errors a sendAndAwait attempt returns for a failed conn.Write / Read
SocketErrs == {ErrWrite, ErrRead}

\* C1: once CleanUp has run in a session that entered a ProgrammingTrack
\* ReadCV or WriteCV, CleanUp has handed exactly one track-power-restore
\* frame (21 81) to the socket before closing it.
C1_CleanUpWritesRestore ==
    (pc = "closed" /\ progOps > 0) => PowerOnCount(wire) = 1

\* C2: in readCVValue a NACK answer ends the call: once an attempt has ended
\* with NackNoAck or NackShortCircuit the call has returned its error and no
\* further read frame is sent.
C2_NackEndsRead ==
    "nack" \in Range(outcomes) =>
        /\ pc = "idle"
        /\ outcomes[Len(outcomes)] = "nack"
        /\ \A k \in 1..(Len(outcomes) - 1) : outcomes[k] # "nack"
        /\ ret.err # nil

\* C3: a ReadCV whose every attempt failed with a timeout or socket error has
\* written its read frame exactly retries+1 times and returns the wrapped
\* error of the last attempt with value 0.
C3_AllAttemptsFail ==
    (/\ pc = "idle"
     /\ ret.call.op = "ReadCV"
     /\ ret.call.mode \in {MainTrackMode, ProgrammingTrackMode}
     /\ \A k \in 1..Len(outcomes) : outcomes[k] = "fail")
    => /\ Len(outcomes) = ret.call.ctx.retries + 1
       /\ Len(wire) = ret.call.ctx.retries + 1
       /\ \A k \in 1..Len(wire) :
             wire[k] = buildCVRequest(ret.call.mode, ret.call.lcv, FALSE).req
       /\ awaited.err \in TimeoutErrs \cup SocketErrs
       /\ ret.err = Wrap("cannot read CV", awaited.err)
       /\ ret.value = 0

C3_Witness ==
    /\ pc = "idle"
    /\ ret.call.op = "ReadCV"
    /\ ret.call.ctx.retries = 2
    /\ outcomes = <<"fail", "fail", "fail">>
    /\ Len(wire) = 3
    /\ ret.err = Wrap("cannot read CV", ErrResponseTimeout)

\* the value byte of a CV write frame: the last byte before the checksum
WrittenValue(frame) == frame[Len(frame) - 1]

\* C4: a WriteCV with verify whose write frame went out returns nil when the
\* verifying read gave a Result with the written value, the mismatch error
\* when it gave a Result with another value, and a different, verification
\* failure error when the verifying read failed.
C4_VerifyOutcome ==
    (/\ pc = "idle"
     /\ ret.call.op = "WriteCV"
     /\ ret.call.ctx.verify
     /\ outcomes # <<>>)
    => LET last == outcomes[Len(outcomes)]
       IN  /\ (last = "result" /\ awaited.res.value = WrittenValue(wire[1]))
                  => ret.err = nil
           /\ (last = "result" /\ awaited.res.value # WrittenValue(wire[1]))
                  => ret.err = ErrVerifyMismatch
           /\ last # "result"
                  => /\ ret.err # nil
                     /\ ret.err # ErrVerifyMismatch
                     /\ Head(ret.err) = "cannot verify CV was written"

C4_Witness ==
    /\ pc = "idle"
    /\ ret.call.op = "WriteCV"
    /\ ret.call.ctx.verify
    /\ outcomes # <<>>
    /\ outcomes[Len(outcomes)] = "result"
    /\ awaited.res.value # WrittenValue(wire[1])
    /\ ret.err = ErrVerifyMismatch

C5_FlagState ==
    /\ progOps = 0 => ~wasPowerCutOff
    /\ (/\ pc = "idle"
        /\ ret.call.op \in CVOps
        /\ ret.call.mode = ProgrammingTrackMode) => wasPowerCutOff

C5_FlagStep ==
    /\ wasPowerCutOff => wasPowerCutOff'
    /\ wasPowerCutOff' # wasPowerCutOff
          => /\ pc' = "idle"
             /\ ret'.call.op \in CVOps
             /\ ret'.call.mode = ProgrammingTrackMode

\* C5: the power flag is false until a ProgrammingTrack ReadCV or WriteCV
\* returns, is true when any such call has returned (with or without an
\* error), changes only at the return of such a call, and never goes back
\* to false.
C5_PowerFlag == []C5_FlagState /\ [][C5_FlagStep]_vars

C5_Witness ==
    /\ pc = "idle"
    /\ ret.call.op \in CVOps
    /\ ret.call.mode = ProgrammingTrackMode
    /\ ret.err # nil
    /\ wasPowerCutOff

\* C6: a session hands at most one track-power-restore frame to the socket,
\* and none when no ProgrammingTrack operation ran.
C6_AtMostOneRestore ==
    /\ powerOnWrites <= 1
    /\ progOps = 0 => powerOnWrites = 0

C6_Witness ==
    /\ pc = "closed"
    /\ progOps >= 2
    /\ powerOnWrites <= 1

C7_AwaitState ==
    pc = "await" => (rx = <<>> \/ ~parseCVResponse(rx).ok)

C7_AwaitStep ==
    pc = "await" =>
        /\ (rx' # rx /\ ~parseCVResponse(rx').ok)
              => UNCHANGED <<pc, cur, ret, outcomes, awaited, wire>>
        /\ pc' # "await"
              => \/ /\ awaited'.err = nil
                    /\ parseCVResponse(rx').ok
                    /\ awaited'.res = parseCVResponse(rx').res
                 \/ /\ awaited'.err \in TimeoutErrs
                    /\ rx' = rx
                 \/ /\ awaited'.err = ErrRead
                    /\ rx' = rx

\* C7: while an attempt polls, every datagram it has read so far was rejected
\* by the parser; reading a rejected datagram changes nothing but the buffer;
\* the attempt ends only with the response parsed from the datagram just
\* read, with a deadline error, or with a socket read error.
C7_FirstValidDatagram == []C7_AwaitState /\ [][C7_AwaitStep]_vars

C7_Witness ==
    /\ pc = "await"
    /\ rx \in JunkDatagrams

\* the function byte DB(4+k) of a loco-info datagram, 0 when the datagram
\* ends before it (its last byte is the checksum)
ReceivedFnByte(pkt, k) == IF 9 + k < Len(pkt) - 1 THEN At0(pkt, 9 + k) ELSE 0

CachedFnBytes(state) ==
    <<state.B0_4, state.B5_12, state.B13_20, state.B21_28, state.B29_31>>

ListFunctionsDone ==
    pc = "idle" /\ ret.call.op = "ListFunctions" /\ ret.err = nil

\* C8: after ListFunctions parsed a loco-info frame, every FunctionState byte
\* whose DB byte the frame omits is zero: the checksum is never stored.
C8_OmittedBytesZero ==
    ListFunctionsDone =>
        \A k \in 0..4 :
            9 + k >= Len(rx) - 1
                => CachedFnBytes(fnStateCache[ret.call.addr])[k + 1] = 0

\* bit n of byte b
BitSet(b, n) == (b \div (2 ^ n)) % 2 = 1

\* function f is on in the function bytes of a loco-info datagram
ReceivedFnOn(pkt, f) ==
    CASE f = 0 -> BitSet(ReceivedFnByte(pkt, 0), 4)
      [] f \in 1..4 -> BitSet(ReceivedFnByte(pkt, 0), f - 1)
      [] f \in 5..12 -> BitSet(ReceivedFnByte(pkt, 1), f - 5)
      [] f \in 13..20 -> BitSet(ReceivedFnByte(pkt, 2), f - 13)
      [] f \in 21..28 -> BitSet(ReceivedFnByte(pkt, 3), f - 21)
      [] f \in 29..31 -> BitSet(ReceivedFnByte(pkt, 4), f - 29)

\* C9: ListFunctions returns, strictly ascending, exactly the functions 0..31
\* whose bit is set in the function bytes of the received loco-info frame.
C9_ActiveFunctions ==
    ListFunctionsDone =>
        /\ \A k \in 1..(Len(ret.fns) - 1) : ret.fns[k] < ret.fns[k + 1]
        /\ Range(ret.fns) = {f \in 0..31 : ReceivedFnOn(rx, f)}

\* C10: the length field of a built frame is its byte count and its header
\* field is 0x0040.
C10_LengthAndHeader ==
    built.by # "none" =>
        /\ LEUint16(built.frame, 0) = Len(built.frame)
        /\ LEUint16(built.frame, 2) = \h0040

-----------------------------------------------------------------------------
(* Frame contents (codec specification).                                   *)

\* the bytes of a frame after length and header, checksum excluded
Payload(frame) == SubSeq(frame, 5, Len(frame) - 1)

\* the byte whose bit n is set iff an odd number of bytes of s have bit n set
ParityXor(s) ==
    LET bit(n) == IF Cardinality({k \in 1..Len(s) : BitSet(s[k], n)}) % 2 = 1
                  THEN 2 ^ n ELSE 0
    IN  bit(0) + bit(1) + bit(2) + bit(3) + bit(4) + bit(5) + bit(6) + bit(7)

\* C11: the last byte of every built frame is the XOR of its payload bytes
\* (length and header excluded); xorSum of the empty sequence is 0, xorSum
\* gives the values TestXorSum expects and extends by one XOR per byte.
C11_Checksum ==
    /\ xorSum(<<>>) = 0
    /\ xorSum(<<0>>) = 0 /\ xorSum(<<1>>) = 1 /\ xorSum(<<1, 2>>) = 3
    /\ xorSum(<<\hFF, 1>>) = \hFE /\ xorSum(<<\hAA, \h55>>) = \hFF
    /\ xorSum(<<\h10, \h20, \h30>>) = 0 /\ xorSum(<<1, 1, 1>>) = 1
    /\ built.by # "none" =>
          LET x == Payload(built.frame)
          IN  /\ built.frame[Len(built.frame)] = ParityXor(x)
              /\ \A n \in 1..Len(x) :
                    xorSum(SubSeq(x, 1, n))
                        = ParityXor(<<xorSum(SubSeq(x, 1, n - 1)), x[n]>>)

C11_Witness ==
    /\ built.by = "buildPomReadPacket"
    /\ built.lcv.LocoId = 17 /\ built.lcv.Cv.Num = 2
    /\ built.frame = <<12, 0, \h40, 0, \hE6, \h30, 0, 17, \hE4, 1, 0, \h22>>

\* the builders whose frame carries a locomotive address
AddressedBuilders ==
    {"buildPomReadPacket", "buildPomWriteByte", "buildGetLocoInfo",
     "buildSetLocoFunction", "buildSetLocoSpeed"}

\* the address a builder was called with
BuiltAddr ==
    IF built.by \in {"buildPomReadPacket", "buildPomWriteByte"}
    THEN built.lcv.LocoId ELSE built.addr

WireCVOf(lcv) == (lcv.Cv.Num + 65535) % 65536

\* the CV number a programming-track frame carries (payload bytes 2 and 3)
DecodedWireCV(frame) == 256 * At0(frame, 6) + At0(frame, 7)

\* C13: for every user CV number in 1..65536 a programming-track request is
\* built and the CV number on the wire is cvNumber - 1, so that adding 1 to
\* the decoded wire CV gives back cvNumber.
C13_WireCV ==
    (built.by = "CVRequest" /\ built.mode = ProgrammingTrackMode
        /\ built.cvNumber \in 1..65536) =>
        /\ built.err = nil
        /\ DecodedWireCV(built.frame) = built.cvNumber - 1
        /\ DecodedWireCV(built.frame) + 1 = built.cvNumber

\* C14: the main-track read frame has payload E6 30 msb lsb (E4 | bits 9-8 of
\* wireCV) (wireCV & FF) 00; the write frame has option EC | bits 9-8 and the
\* value byte last.
C14_PomPayload ==
    LET w == WireCVOf(built.lcv)
        msb == At0(built.frame, 6)
        lsb == At0(built.frame, 7)
    IN  /\ built.by = "buildPomReadPacket" =>
              Payload(built.frame)
                  = <<\hE6, \h30, msb, lsb, \hE4 + ((w \div 256) % 4), w % 256, 0>>
        /\ built.by = "buildPomWriteByte" =>
              Payload(built.frame)
                  = <<\hE6, \h30, msb, lsb, \hEC + ((w \div 256) % 4), w % 256,
                      built.lcv.Cv.Value % 256>>

C14_Witness ==
    /\ built.by = "buildPomReadPacket"
    /\ built.lcv.LocoId = 17 /\ built.lcv.Cv.Num = 2
    /\ At0(built.frame, 8) = \hE4 /\ At0(built.frame, 9) = 1

-----------------------------------------------------------------------------
(* NACK classification (session specification).                            *)

\* a datagram whose length field and header are those of a Z21 X-bus frame
WellFormed(pkt) ==
    Len(pkt) >= 6 /\ LEUint16(pkt, 0) = Len(pkt) /\ LEUint16(pkt, 2) = \h0040

\* a well-formed datagram whose payload starts 61 <db0>
IsNack(pkt, db0) == WellFormed(pkt) /\ At0(pkt, 4) = \h61 /\ At0(pkt, 5) = db0

\* what ReadCV returns when its last attempt ended with either NACK
ErrReadNoAck ==
    <<"cannot read CV", "cannot read CV", "missing RailCom acknowledgement (NACK_SC)">>

ErrReadShortCircuit ==
    <<"cannot read CV", "cannot read CV", "short circuit (LAN_X_CV_NACK_SC)">>

ReadCVDone == pc = "idle" /\ ret.call.op = "ReadCV"

-----------------------------------------------------------------------------
(* Function bits (function-state specification).                           *)

\* the byte (0..4) and the bit of function f, as the claim lists them
FnByteOf(f) ==
    CASE f <= 4 -> 0 [] f <= 12 -> 1 [] f <= 20 -> 2 [] f <= 28 -> 3 [] OTHER -> 4

FnBitOf(f) ==
    CASE f = 0 -> 4 [] f <= 4 -> f - 1 [] f <= 12 -> f - 5 [] f <= 20 -> f - 13
      [] f <= 28 -> f - 21 [] OTHER -> f - 29

\* C16: after set(f, on) on any prior state, get(f) = on and get(g) is as
\* before for every other g in 0..31; set changes exactly the byte and bit
\* listed for f and get reads that same byte and bit.
C16_SetGet ==
    built.by = "updateFunctionStateCache" =>
        LET f == built.fnNum
            s == CachedFnBytes(built.prior)
            t == CachedFnBytes(fnStateCache[built.addr])
        IN  /\ extractFunctionBit(fnStateCache[built.addr], f) = built.on
            /\ \A g \in (0..31) \ {f} :
                  extractFunctionBit(fnStateCache[built.addr], g)
                      = extractFunctionBit(built.prior, g)
            /\ \A g \in 0..31 :
                  extractFunctionBit(built.prior, g)
                      = BitSet(s[FnByteOf(g) + 1], FnBitOf(g))
            /\ \A k \in 0..4, n \in 0..7 :
                  BitSet(t[k + 1], n)
                      = IF k = FnByteOf(f) /\ n = FnBitOf(f) THEN built.on
                        ELSE BitSet(s[k + 1], n)

C16_Witness ==
    /\ built.by = "updateFunctionStateCache"
    /\ built.fnNum = 29 /\ built.on
    /\ built.prior = ZeroFnState
    /\ fnStateCache[built.addr] = [ZeroFnState EXCEPT !.B29_31 = 1]

-----------------------------------------------------------------------------
(* SendFn (function session).                                              *)

\* the step is a SendFn call that has returned
SendFnReturned == pc' = "idle" /\ ret'.call.op = "SendFn"

SendFnAccepted(c) == c.mode = MainTrackMode /\ c.num \in 0..31

C17_Step ==
    (SendFnReturned /\ ~SendFnAccepted(ret'.call)) =>
        /\ ret'.err # nil
        /\ wire' = <<>>
        /\ fnStateCache' = fnStateCache

\* C17: a SendFn call with a mode other than MainTrack or a function number
\* outside 0..31 returns an error, hands no frame to the socket and leaves
\* the function-state cache as it was.
C17_RejectedSendFn == [][C17_Step]_vars

C17_Witness ==
    /\ pc = "idle" /\ ret.call.op = "SendFn"
    /\ ret.call.mode = MainTrackMode /\ ret.call.num = 32
    /\ ret.err # nil /\ wire = <<>>
    /\ fnStateCache # <<>>

\* the function bytes of addr in a cache, zero when addr has no entry
EntryBytes(cache, addr) ==
    CachedFnBytes(IF addr \in DOMAIN cache THEN cache[addr] ELSE ZeroFnState)

IsSetFunctionFrame(f) ==
    Len(f) = 10 /\ At0(f, 4) = \hE4 /\ At0(f, 5) = \hF8

C18_Step ==
    (SendFnReturned /\ SendFnAccepted(ret'.call)) =>
        LET c == ret'.call
        IN  /\ Len(wire') = 1 /\ IsSetFunctionFrame(wire'[1])
            /\ ret'.err # nil => fnStateCache' = fnStateCache
            /\ ret'.err = nil =>
                  /\ DOMAIN fnStateCache' = DOMAIN fnStateCache \cup {c.addr}
                  /\ \A a \in DOMAIN fnStateCache \ {c.addr} :
                        fnStateCache'[a] = fnStateCache[a]
                  /\ \A k \in 0..4, n \in 0..7 :
                        BitSet(EntryBytes(fnStateCache', c.addr)[k + 1], n)
                            = IF k = FnByteOf(c.num) /\ n = FnBitOf(c.num) THEN c.on
                              ELSE BitSet(EntryBytes(fnStateCache, c.addr)[k + 1], n)

\* C18: an accepted SendFn hands exactly one set-function frame to the
\* socket; when the write succeeds the bit of the function in the entry of
\* the address becomes the requested value (a missing entry counts as zero),
\* every other bit and every other entry stays; when the write fails the
\* cache stays as it was.
C18_SendFnEffect == [][C18_Step]_vars

C18_Witness ==
    /\ pc = "idle" /\ ret.call.op = "SendFn" /\ ret.err = nil
    /\ ret.call.addr = 3 /\ ret.call.num = 29 /\ ret.call.on
    /\ DOMAIN fnStateCache = {3, 200}
    /\ fnStateCache[3] = [ZeroFnState EXCEPT !.B0_4 = \h10, !.B29_31 = 1]

-----------------------------------------------------------------------------
(* Concurrent SendFn (concurrent specification).                           *)

\* every concurrent caller has returned from SendFn without an error
AllCallersSucceeded ==
    /\ DOMAIN callers.procs = Callers
    /\ \A p \in Callers : callers.procs[p].pc = "done" /\ callers.procs[p].err = nil

\* C19: when all concurrent SendFn calls for one address and pairwise
\* different function numbers have returned and every write succeeded, the
\* cache entry of that address holds, for each call, the value it requested.
C19_NoLostUpdate ==
    AllCallersSucceeded =>
        /\ ConcAddr \in DOMAIN fnStateCache
        /\ \A p \in Callers :
              extractFunctionBit(fnStateCache[ConcAddr], callers.procs[p].num)
                  = callers.procs[p].on

C19_Witness ==
    /\ AllCallersSucceeded
    /\ Cardinality(Callers) >= 2
    /\ \E p, q \in Callers :
          /\ callers.procs[p].num = 0 /\ callers.procs[p].on
          /\ callers.procs[q].num = 1 /\ ~callers.procs[q].on
    /\ fnStateCache[ConcAddr].B0_4 = \h12

-----------------------------------------------------------------------------
(* Request / response ordering (session specification).                    *)

\* a request frame the command station answers: LAN_X_CV_READ (23 11),
\* LAN_X_CV_WRITE (24 12), LAN_X_CV_POM_READ_BYTE (E6 30, option E4..E7) and
\* LAN_X_GET_LOCO_INFO (E3 F0)
ElicitsReply(f) ==
    \/ At0(f, 4) = \h23 /\ At0(f, 5) = \h11
    \/ At0(f, 4) = \h24 /\ At0(f, 5) = \h12
    \/ At0(f, 4) = \hE6 /\ At0(f, 5) = \h30 /\ At0(f, 8) \div 4 = \h39
    \/ At0(f, 4) = \hE3 /\ At0(f, 5) = \hF0

\* answered requests the current call has handed to the socket
RequestsSent == Cardinality({k \in 1..Len(wire) : ElicitsReply(wire[k])})

\* C20: within a call at most one request is outstanding: a further request
\* is written only after the wait for the reply of every earlier one ended
\* (reply consumed, deadline elapsed or socket error).
C20_NoPipelining == RequestsSent <= Len(outcomes) + 1

\* a CV call that was given Timeout(0)
ZeroTimeout(c) == c.op \in CVOps /\ c.ctx.timeout = Nanoseconds(0)

\* C21: with a timeout of 0 every attempt of a CV read ends with an error and
\* without a datagram read, although the socket has valid responses to give,
\* and ReadCV returns an error and no value.
C21_ZeroTimeout ==
    /\ (pc \in {"send", "await"} /\ ZeroTimeout(cur))
          => /\ rx = <<>>
             /\ \A k \in 1..Len(outcomes) : outcomes[k] = "fail"
    /\ (pc = "idle" /\ ZeroTimeout(ret.call))
          => /\ rx = <<>>
             /\ \A k \in 1..Len(outcomes) : outcomes[k] = "fail"
             /\ outcomes # <<>> => awaited.err \in {ErrWrite, ErrNoResponse}
             /\ ret.call.op = "ReadCV" => (ret.err # nil /\ ret.value = 0)

C21_Witness ==
    /\ pc = "idle"
    /\ ZeroTimeout(ret.call)
    /\ ret.call.op = "ReadCV"
    /\ ret.call.mode = ProgrammingTrackMode
    /\ Len(wire) = 3
    /\ outcomes = <<"fail", "fail", "fail">>
    /\ ret.err = Wrap("cannot read CV", ErrNoResponse)

\* the ReadCV calls the action made, in order
IsReadCV(c) == c.op = "ReadCV"

ReadCalls == SelectSeq(app.calls, IsReadCV)

\* the CV numbers the user listed
ListedCVs == {app.input[k].Number : k \in 1..Len(app.input)}

FailedReads == {k \in 1..Len(ReadCalls) : ReadCalls[k].err # nil}

\* a ReadCVAction that got a session and a well-formed list has returned
ReadCVActionDone ==
    /\ app.pc = "done"
    /\ app.action = "ReadCVAction"
    /\ app.constructed
    /\ app.parseErr = nil

\* C22: ReadCVAction with more than one CV reads every listed CV, in
\* ascending order of CV number, whatever the earlier reads returned, prints
\* cvN=value or cvN=ERROR for each, and returns the error of the last failed
\* read (nil when none failed); with exactly one CV it prints the bare value,
\* or prints nothing and returns the read's error.
C22_ReadCVAction ==
    ReadCVActionDone =>
        /\ Cardinality(ListedCVs) > 1 =>
              /\ Len(ReadCalls) = Cardinality(ListedCVs)
              /\ {ReadCalls[k].num : k \in 1..Len(ReadCalls)} = ListedCVs
              /\ \A k \in 1..(Len(ReadCalls) - 1) :
                    ReadCalls[k].num < ReadCalls[k + 1].num
              /\ Len(app.printed) = Len(ReadCalls)
              /\ \A k \in 1..Len(ReadCalls) :
                    app.printed[k] =
                        IF ReadCalls[k].err = nil
                        THEN Printf("cv%d=%d\n", ReadCalls[k].num, ReadCalls[k].value)
                        ELSE Printf("cv%d=ERROR\n", ReadCalls[k].num, 0)
              /\ app.err = IF FailedReads = {} THEN nil
                           ELSE ReadCalls[CHOOSE k \in FailedReads :
                                             \A j \in FailedReads : j <= k].err
        /\ Cardinality(ListedCVs) = 1 =>
              /\ Len(ReadCalls) = 1
              /\ ReadCalls[1].num \in ListedCVs
              /\ IF ReadCalls[1].err = nil
                 THEN /\ app.printed = <<Printf("%d\n", ReadCalls[1].value, 0)>>
                      /\ app.err = nil
                 ELSE /\ app.printed = <<>>
                      /\ app.err = ReadCalls[1].err

C22_Witness ==
    /\ ReadCVActionDone
    /\ app.input = <<CVToken(29, 0), CVToken(1, 0), CVToken(2, 0)>>
    /\ Len(ReadCalls) = 3
    /\ ReadCalls[1].err = <<"cannot read CV", "read error">>
    /\ ReadCalls[2].err = <<"cannot read CV", "response timeout">>
    /\ ReadCalls[3].err = nil
    /\ app.err = <<"cannot read CV", "response timeout">>

\* CleanUp calls the action has made on its station
CleanUpCalls == {k \in 1..Len(app.calls) : app.calls[k].op = "CleanUp"}

\* C23: an action that got its station from initializeCommandStation calls
\* CleanUp exactly once, as its last station call, on every way out (parse
\* error of the CV list, failed station call, success); it does not call it
\* before it returns, and an action without a station never calls it.
C23_CleanUpOnce ==
    /\ app.pc = "call" => CleanUpCalls = {}
    /\ app.pc = "done" =>
          IF app.constructed
          THEN CleanUpCalls = {Len(app.calls)}
          ELSE app.calls = <<>>

C23_Witness ==
    /\ app.pc = "done"
    /\ app.action = "RBWifiAction"
    /\ app.constructed
    /\ Len(app.calls) = 3
    /\ app.calls[2].op = "SendFn"
    /\ app.calls[2].err # nil
    /\ app.err # nil
    /\ CleanUpCalls = {3}

\* the length and header fields of a datagram say what was received
FieldsMatch(pkt) ==
    /\ Len(pkt) >= 4
    /\ pkt[1] + 256 * pkt[2] = Len(pkt)
    /\ pkt[3] + 256 * pkt[4] = \h0040

IsCVResultFrame(pkt) == Len(pkt) >= 6 /\ pkt[5] = \h64 /\ pkt[6] = \h14

\* C24: parseCVResponse and parseLocoInfo accept a datagram only when its
\* little-endian length field is the number of bytes received and its header
\* field is 0x0040; a 64 14 datagram is accepted only with at least 10 bytes,
\* and then as a Result with cv = byte6 * 256 + byte7 and value = byte8.
C24_AcceptedDatagram ==
    built.by = "parse" =>
        /\ built.cvResponse.ok => FieldsMatch(built.frame)
        /\ built.locoInfo.err = nil => FieldsMatch(built.frame)
        /\ (built.cvResponse.ok /\ IsCVResultFrame(built.frame)) =>
              /\ Len(built.frame) >= 10
              /\ built.cvResponse.res.source = "LAN_X_CV_RESULT"
              /\ built.cvResponse.res.cv = built.frame[7] * 256 + built.frame[8]
              /\ built.cvResponse.res.value = built.frame[9]

C24_Witness ==
    /\ built.by = "parse"
    /\ built.frame = ResultFrame(256, 255)
    /\ built.cvResponse.ok
    /\ built.cvResponse.res.cv = 256
    /\ built.cvResponse.res.value = 255
    /\ built.locoInfo.err # nil

\* a sendAndAwait attempt ends in this step
AttemptEnds == Len(outcomes') = Len(outcomes) + 1

\* what ReadCV / WriteCV return when readCVValue gave up with err
GivenUp(c, err) ==
    IF c.op = "ReadCV" THEN Wrap("cannot read CV", err)
    ELSE Wrap("cannot verify CV was written", err)

C25_Step ==
    (AttemptEnds /\ awaited'.err \in SocketErrs) =>
        /\ pc = "send" => (awaited'.err = ErrWrite /\ rx' = <<>>)
        /\ pc = "await" => (awaited'.err = ErrRead /\ rx' = rx)
        /\ IF cur.i < cur.ctx.retries
           THEN /\ pc' = "send"
                /\ cur' = [cur EXCEPT !.i = @ + 1, !.lastErr = awaited'.err]
                /\ ret' = ret
           ELSE /\ pc' = "idle"
                /\ Len(outcomes') = cur.ctx.retries + 1
                /\ ret'.err = GivenUp(cur, awaited'.err)

\* C25: a socket error of conn.Write or conn.Read that is no timeout ends
\* the attempt on the spot, with no read after it, and readCVValue goes on as
\* after a timeout: the next attempt starts while the retry budget lasts, and
\* the error is returned only when the budget is used up.
C25_SocketError == [][C25_Step]_vars

C25_Witness ==
    /\ pc = "idle"
    /\ ret.call.op = "ReadCV"
    /\ ret.call.ctx.retries = 1
    /\ outcomes = <<"fail", "fail">>
    /\ Len(wire) = 2
    /\ awaited.err = ErrRead
    /\ ret.err = Wrap("cannot read CV", ErrRead)

\* the last call that returned was a ReadCV or WriteCV in an unknown mode
UnknownModeCall(r) ==
    /\ r.call.op \in CVOps
    /\ r.call.mode \notin {MainTrackMode, ProgrammingTrackMode}

C26_State ==
    (pc = "idle" /\ UnknownModeCall(ret)) =>
        /\ ret.err # nil
        /\ ret.value = 0
        /\ wire = <<>>
        /\ outcomes = <<>>

C26_Step ==
    (pc' = "idle" /\ UnknownModeCall(ret')) =>
        /\ wasPowerCutOff' = wasPowerCutOff
        /\ powerOnWrites' = powerOnWrites
        /\ progOps' = progOps

\* C26: ReadCV and WriteCV in a mode that is neither "pom" nor "prog" return
\* an error, hand no frame to the socket, and leave the power flag as it was.
C26_UnknownMode == []C26_State /\ [][C26_Step]_vars

C26_Witness ==
    /\ pc = "idle"
    /\ ret.call.op = "WriteCV"
    /\ ret.call.mode = OtherMode
    /\ ret.call.ctx.verify
    /\ ret.err = <<"cannot build CV request in WriteCV", "unrecognized mode">>
    /\ wire = <<>>
    /\ ~wasPowerCutOff

\* the value of the last option of a kind in a list, or a default
OptionOr(options, kind, default) ==
    LET K == {k \in 1..Len(options) : options[k].opt = kind}
    IN  IF K = {} THEN default
        ELSE options[CHOOSE k \in K : \A j \in K : j <= k].val

\* C27: with no options a CV call runs with the session's Timeout, retries =
\* 2, verify = false and a settle delay of 200 milliseconds; an option
\* replaces the field it names and no other.
C27_Defaults ==
    built.by = "RequestContext" =>
        /\ built.ctx.timeout = OptionOr(built.options, "Timeout", SessionTimeout)
        /\ built.ctx.retries = OptionOr(built.options, "Retries", 2)
        /\ built.ctx.verify = OptionOr(built.options, "Verify", FALSE)
        /\ built.ctx.settle = Milliseconds(200)

\* DB3 of a LAN_X_SET_LOCO_DRIVE frame
SpeedByte(frame) == frame[9]

\* the largest speed of a step-count variant
MaxSpeed(speedSteps) ==
    CASE speedSteps = 0 -> 15
      [] speedSteps = 2 -> 28
      [] speedSteps = 4 -> 127

Clamped(speed, speedSteps) ==
    IF speed > MaxSpeed(speedSteps) THEN MaxSpeed(speedSteps) ELSE speed

\* the speed a decoder reads from the low seven bits of DB3
DecodedSpeed(low, speedSteps) ==
    CASE speedSteps = 0 -> low
      [] speedSteps = 2 -> IF low = 0 THEN 0 ELSE 2 * (low % 16) + (low \div 16) - 3
      [] speedSteps = 4 -> low

\* C28: for the selectors 0, 2, 4 and every speed 0..255, bit 7 of the speed
\* byte is the direction and its low seven bits encode min(speed, max) with
\* max = 15, 28, 127: in bits 0-3 for 14 steps, in bit 4 and bits 0-3 for 28
\* steps, in bits 0-6 for 128 steps; different clamped speeds of one variant
\* give different speed bytes.
C28_SpeedByte ==
    built.by = "buildSetLocoSpeed" =>
        LET db3 == SpeedByte(built.frame)
            low == db3 % 128
            c == Clamped(built.speed, built.speedSteps)
        IN  /\ (db3 >= 128) = built.forward
            /\ built.speedSteps = 0 => low < 16
            /\ built.speedSteps = 2 => low < 32
            /\ DecodedSpeed(low, built.speedSteps) = c
            /\ \A other \in 0..255 :
                  Clamped(other, built.speedSteps) # c =>
                      SpeedByte(buildSetLocoSpeed(built.addr, other, built.forward,
                                                  built.speedSteps)) # db3

C28_Witness ==
    /\ built.by = "buildSetLocoSpeed"
    /\ built.speedSteps = 2
    /\ built.speed = 200
    /\ built.forward
    /\ SpeedByte(built.frame) = \h9F

\* the WriteCV call in progress or just returned, NoCall when there is none
WriteCVCall ==
    IF pc = "idle" THEN (IF ret.call.op = "WriteCV" THEN ret.call ELSE NoCall)
    ELSE IF cur.op = "WriteCV" THEN cur ELSE NoCall

\* how many times a frame was handed to the socket in this call
TimesWritten(frame) == Cardinality({k \in 1..Len(wire) : wire[k] = frame})

\* C29: a WriteCV call hands its write frame to the socket once, first, and
\* never again; without verify it sends nothing else, reads no datagram, and
\* fails only when that one socket write failed.
C29_WriteOnce ==
    LET c == WriteCVCall
    IN  (c.op = "WriteCV" /\ c.mode \in {MainTrackMode, ProgrammingTrackMode}) =>
            /\ wire # <<>>
            /\ wire[1] = buildCVRequest(c.mode, c.lcv, TRUE).req
            /\ TimesWritten(wire[1]) = 1
            /\ ~c.ctx.verify =>
                  /\ pc = "idle"
                  /\ Len(wire) = 1
                  /\ rx = <<>>
                  /\ outcomes = <<>>
                  /\ ret.err \in {nil, Wrap("cannot write CV", ErrWrite)}

C29_Witness ==
    /\ pc = "idle"
    /\ ret.call.op = "WriteCV"
    /\ ret.call.mode = ProgrammingTrackMode
    /\ ~ret.call.ctx.verify
    /\ wire = <<buildProgWritePacket(ret.call.lcv)>>
    /\ rx = <<>>
    /\ ret.err = nil

\* this step ends a ListFunctions call
ListFunctionsReturns == pc' = "idle" /\ ret'.call.op = "ListFunctions"

C30_Step ==
    /\ pc = "lf_await" =>
          /\ rx = <<>>
          /\ wire = <<buildGetLocoInfo(cur.addr)>>
          /\ ListFunctionsReturns
          /\ wire' = wire
    /\ ListFunctionsReturns =>
          LET addr == ret'.call.addr
              p == parseLocoInfo(rx')
          IN  /\ wire' = <<buildGetLocoInfo(addr)>>
              /\ ret'.err # nil => fnStateCache' = fnStateCache
              /\ (rx' = <<>> \/ p.err # nil) => ret'.err # nil
              /\ ret'.err = nil =>
                    /\ pc = "lf_await"
                    /\ DOMAIN fnStateCache' = DOMAIN fnStateCache \cup {addr}
                    /\ fnStateCache'[addr] = p.state
                    /\ \A a \in DOMAIN fnStateCache \ {addr} :
                          fnStateCache'[a] = fnStateCache[a]

\* C30: ListFunctions hands one get-loco-info frame to the socket and reads
\* one datagram, without retry; when the write fails, the read fails or times
\* out, or the datagram is no valid loco-info frame, it returns an error and
\* the cache is as before; otherwise the entry of the requested address
\* becomes the parsed state and every other entry stays.
C30_ListFunctions == [][C30_Step]_vars

C30_Witness ==
    /\ pc = "idle"
    /\ ret.call.op = "ListFunctions"
    /\ ret.call.addr = 3
    /\ ret.err = nil
    /\ rx = LocoInfoFrame(3, <<4, 0, \h10, 0>>)
    /\ DOMAIN fnStateCache = {3, 200}
    /\ fnStateCache[200] # fnStateCache[3]

\* the first, last and value a range entry stands for
RangeMeaning(e) ==
    CASE e = <<"c", "v", "1", "-", "c", "v", "3">> -> [a |-> 1, b |-> 3, v |-> 0]
      [] e = <<"c", "v", "1", "-", "c", "v", "3", "=", "7">> -> [a |-> 1, b |-> 3, v |-> 7]
      [] e = <<"c", "v", "2", "-", "c", "v", "2", "=", "5">> -> [a |-> 2, b |-> 2, v |-> 5]

Parsed == built.by = "ParseCVString"

\* C31: a range entry 'cvA-cvB' or 'cvA-cvB=v' becomes one entry for every
\* CV number from A to B with value v (0 without a value): alone the result
\* is exactly that list, and next to single entries, with either separator,
\* the parse succeeds and holds an entry for every number of the range.
C31_RangeExpansion ==
    (/\ Parsed
     /\ \A k \in 1..Len(built.lines) :
           built.lines[k] \in SingleEntries \cup RangeEntries
     /\ \E k \in 1..Len(built.lines) : built.lines[k] \in RangeEntries)
    => /\ built.parsed.err = nil
       /\ \A k \in 1..Len(built.lines) :
             built.lines[k] \in RangeEntries =>
                LET m == RangeMeaning(built.lines[k])
                IN  /\ \A n \in m.a..m.b :
                          \E j \in 1..Len(built.parsed.entries) :
                             built.parsed.entries[j].Number = n
                    /\ Len(built.lines) = 1 =>
                          built.parsed.entries =
                             [j \in 1..(m.b - m.a + 1) |->
                                 CVToken(m.a + j - 1, m.v)]

\* the CV number and value a single entry stands for
EntryMeaning(e) ==
    CASE e = <<"c", "v", "1", "=", "1", "7">> -> CVToken(1, 17)
      [] e = <<"C", "V", "1", "=", "2">> -> CVToken(1, 2)
      [] e = <<"c", "v", "1">> -> CVToken(1, 0)
      [] e = <<" ", "C", "V", "2", " ", "=", " ", "3", " ">> -> CVToken(2, 3)
      [] e = <<"c", "v", "2", "=", "5", " ", "#", " ", "x">> -> CVToken(2, 5)
      [] e = <<"c", "v", "6", "=", "7">> -> CVToken(6, 7)
      [] e = <<"2", "=", "2", "5", "5">> -> CVToken(2, 255)
      [] e = <<"c", "v", "3", "=", "9">> -> CVToken(3, 9)

\* positions of the entries that are neither blank nor commented out
Effective(lines) == {k \in 1..Len(lines) : lines[k] \notin BlankEntries}

\* C32: when the input parses, the CV numbers of the entries returned are
\* strictly ascending (so pairwise different), they are exactly the numbers
\* of the entries that are neither blank nor commented out, and each carries
\* the value of the last entry with its number (0 when that entry has no
\* value).
C32_UniqueAscending ==
    (Parsed /\ built.parsed.err = nil) =>
       LET lines == built.lines
           entries == built.parsed.entries
           eff == Effective(lines)
       IN  /\ \A k \in eff : lines[k] \in SingleEntries
           /\ \A j \in 1..(Len(entries) - 1) :
                 entries[j].Number < entries[j + 1].Number
           /\ {entries[j].Number : j \in 1..Len(entries)} =
                 {EntryMeaning(lines[k]).Number : k \in eff}
           /\ \A j \in 1..Len(entries) :
                 \E k \in eff :
                    /\ EntryMeaning(lines[k]) = entries[j]
                    /\ \A m \in eff :
                          EntryMeaning(lines[m]).Number = entries[j].Number
                             => m <= k

C32_Witness ==
    /\ Parsed
    /\ built.lines = << <<"c", "v", "1", "=", "1", "7">>, <<"c", "v", "1">> >>
    /\ built.parsed = [entries |-> <<CVToken(1, 0)>>, err |-> nil]

\* C33: trackOrDefault returns a requested 'pom' or 'prog' as it is, an
\* error for any other non-empty track, and for an empty track 'prog' when
\* the locomotive address is 0 and 'pom' otherwise.
C33_TrackOrDefault ==
    built.by = "trackOrDefault" =>
       /\ built.mode \in {"pom", "prog"} =>
             built.track = [track |-> built.mode, err |-> nil]
       /\ built.mode \notin {"", "pom", "prog"} => built.track.err # nil
       /\ (built.mode = "" /\ built.addr = 0) =>
             built.track = [track |-> "prog", err |-> nil]
       /\ (built.mode = "" /\ built.addr # 0) =>
             built.track = [track |-> "pom", err |-> nil]

C33_Witness ==
    /\ built.by = "trackOrDefault"
    /\ built.mode = ""
    /\ built.addr = 0
    /\ built.track.track = "prog"

\* a synchronisation that made its changes and returned nil
Synced == built.by = "SyncSoundSlot" /\ ~built.dryRun /\ built.sync.err = nil

\* C34: a synchronisation re-uploads every file that is on both sides with a
\* local size in KB (rounded up) other than the size the decoder reports,
\* uploads every file that is only local, and deletes every file that is
\* only on the decoder.
C34_SyncSoundSlot ==
    Synced =>
       LET localFiles == built.localFiles
           remoteFiles == built.remoteFiles
       IN  /\ \A name \in (DOMAIN localFiles) \cap (DOMAIN remoteFiles) :
                 (localFiles[name].sizeBytes + 1023) \div 1024 # remoteFiles[name]
                    => name \in built.sync.uploaded
           /\ (DOMAIN localFiles) \ (DOMAIN remoteFiles) \subseteq built.sync.uploaded
           /\ built.sync.deleted = (DOMAIN remoteFiles) \ (DOMAIN localFiles)

\* C40: in WatchSoundSlot at most one synchronisation run is in progress at
\* any time, also when a run takes longer than the debounce time and file
\* events keep arriving.
C40_OneSyncAtATime == watch.running <= 1

\* this step is the timer starting a synchronisation run
SyncTriggered == watch'.triggered = watch.triggered + 1

\* this step is a synchronisation run returning
SyncReturned == watch'.running = watch.running - 1

\* a returning run leaves the loop where it is (the initial one lets it start)
LoopGoesOn ==
    SyncReturned =>
       watch'.pc = IF watch.pc = "initial" THEN "select" ELSE watch.pc

C35_ArrivalStep ==
    /\ SyncTriggered =>
          /\ watch.triggered = 0
          /\ watch.now = watch.lastEvent + DebounceTicks
    /\ LoopGoesOn

\* C35 as stated: a burst of write/create/remove events, each less than
\* 500 ms after the one before, triggers exactly one synchronisation run,
\* which starts 500 ms after the last event of the burst arrived; a failed
\* initial or triggered run never stops the watch loop.
C35_DebounceFromArrival == [][C35_ArrivalStep]_vars

C35_ReceivedState ==
    (watch.pc = "select" /\ watch.lastReceived >= 0) =>
       IF watch.triggered = 0
       THEN /\ watch.timer = [armed |-> TRUE,
                              at |-> watch.lastReceived + DebounceTicks]
            /\ watch.now <= watch.timer.at
       ELSE watch.triggered = 1 /\ ~watch.timer.armed

C35_ReceivedStep ==
    /\ SyncTriggered =>
          /\ watch.triggered = 0
          /\ watch.now = watch.lastReceived + DebounceTicks
    /\ LoopGoesOn

\* C35, amended: a burst of write/create/remove events, each received by
\* the watch loop less than 500 ms after the one before, triggers exactly
\* one synchronisation run, which starts 500 ms after the loop received the
\* last event of the burst; a failed initial or triggered run never stops
\* the watch loop.
C35_DebounceFromReceipt == []C35_ReceivedState /\ [][C35_ReceivedStep]_vars

C35_Witness ==
    /\ watch.pc = "select"
    /\ watch.failed
    /\ watch.burst >= 2
    /\ watch.triggered = 1
    /\ watch.now = watch.lastReceived + DebounceTicks

\* a ReadCV that returned a value, or a WriteCV whose verify step compared one
AnswerTaken ==
    /\ pc = "idle"
    /\ ret.call.op \in CVOps
    /\ outcomes # <<>>
    /\ outcomes[Len(outcomes)] = "result"

\* C36: the value ReadCV returns for CV number n, and the value the verify
\* step of WriteCV compares, comes from a CV-result frame whose CV-number
\* field is n - 1; a result frame for another CV is never taken as the
\* answer.
C36_AnswerForRequestedCV ==
    AnswerTaken =>
       /\ IsCVResultFrame(rx)
       /\ awaited.res.cv = ret.call.lcv.Cv.Num - 1
       /\ LEUint16(<<At0(rx, 7), At0(rx, 6)>>, 0) = ret.call.lcv.Cv.Num - 1

\* the WriteCV call in progress, or the one that returned last
WriteCVInHand ==
    IF pc = "idle" THEN ret.call.op = "WriteCV" ELSE cur.op = "WriteCV"

\* C38: the value byte of a CV write frame is the value the caller asked
\* for; a value outside 0..255 is refused with nothing handed to the socket;
\* and a verifying WriteCV returns nil only when the byte read back is the
\* value asked for.
C38_WrittenValue ==
    WriteCVInHand =>
       LET c == IF pc = "idle" THEN ret.call ELSE cur
       IN  /\ wire # <<>> => WrittenValue(wire[1]) = c.lcv.Cv.Value
           /\ c.lcv.Cv.Value \notin 0..255 =>
                 /\ wire = <<>>
                 /\ pc = "idle"
                 /\ ret.err # nil
           /\ (pc = "idle" /\ c.ctx.verify /\ ret.err = nil) =>
                 awaited.res.value = c.lcv.Cv.Value

\* C37: when concurrent SendFn calls for one address and one function
\* number have all returned nil, the cached bit of that function is the
\* on/off value of the set-function frame that was handed to the socket
\* last.
C37_CacheFollowsLastFrame ==
    AllCallersSucceeded =>
       \A p \in Callers :
          wire[Len(wire)] =
             buildSetLocoFunction(ConcAddr, callers.procs[p].num,
                extractFunctionBit(fnStateCache[ConcAddr], callers.procs[p].num))

\* C39: two datagrams that differ only in the trailing checksum byte are
\* accepted or dropped alike and classified alike (LAN_X_CV_RESULT,
\* LAN_X_CV_NACK, LAN_X_CV_NACK_SC, loco info); the checksum byte lies after
\* the opcode bytes, so the datagram has at least 7 bytes.
Classified(cvResponse, locoInfo) ==
    [accepted |-> cvResponse.ok, source |-> cvResponse.res.source,
     locoInfo |-> locoInfo.err = nil]

C39_ChecksumIgnored ==
    (built.by = "parsePair" /\ Len(built.frame) >= 7) =>
       Classified(built.cvResponse, built.locoInfo) =
          Classified(built.alt.cvResponse, built.alt.locoInfo)

\* a CV result with the right checksum and its copy with a wrong one, both taken
C39_Witness ==
    /\ built.by = "parsePair"
    /\ Len(built.frame) >= 7
    /\ xorSum(SubSeq(built.frame, 5, Len(built.frame))) = 0
    /\ xorSum(SubSeq(built.alt.frame, 5, Len(built.alt.frame))) # 0
    /\ built.cvResponse.ok
    /\ built.alt.cvResponse.ok
    /\ built.alt.cvResponse.res.source = "LAN_X_CV_RESULT"

====
